---- MODULE Spec2Model ----
(***************************************************************************)
(* Model of the Neptune graph store of the amazon-neptune-mcp-server:      *)
(* NeptuneDatabase (graph_store/database.py) with its two one-shot schema  *)
(* caches, the property-graph schema build, the IRI splitting helper, the  *)
(* RDF schema build and the signed SPARQL request, and of NeptuneServer    *)
(* (neptune.py): the connection dispatch and the liveness probe.           *)
(*                                                                         *)
(* Python values are represented as follows.                               *)
(*   str            a sequence of one-character strings (IRIs), or a TLA+  *)
(*                  string where only equality is used (labels, keys)      *)
(*   Optional[T]    None == <<>> and Some(x) == <<x>>                      *)
(*   list           a sequence                                             *)
(*   dict           a sequence of <<key, value>> pairs in insertion order  *)
(*   set            a set                                                  *)
(*   a call         a record [exc, value]: exc = "" when the call returned *)
(*                  value, otherwise exc is the name of the exception type *)
(***************************************************************************)
EXTENDS Integers, Sequences, FiniteSets

VARIABLES
    iri,          \* argument of the pending/last direct _get_local_name call
    local_name,   \* None, or Some(outcome of _get_local_name(iri))
    graph,        \* the remote property graph served by the neptunedata client
    schema,       \* NeptuneDatabase.schema  (Optional[GraphSchema])
    last,         \* observation of the last property-graph accessor operation
    store,        \* the remote RDF store served by the neptunedata client
    rdf_schema,   \* NeptuneDatabase.rdf_schema  (Optional[RDFGraphSchema])
    rdf_last,     \* observation of the last RDF accessor operation
    sparql_call,  \* None, or Some(observation of the last _query_sparql call)
    server,       \* None, or Some(observation of the last NeptuneServer operation)
    environ,      \* os.environ as the Neptune MCP server (server.py) sees it
    _graph,       \* server.py's module global _graph  (Optional[NeptuneServer])
    tool,         \* observation of the last call of a Neptune tool/resource function
    enable_aws_resource_write,  \* the Finch server's module global of that name
    finch,        \* observation of the last call of a Finch server function
    nulls         \* None, or Some(observation of the last remove_null_values call)

iriVars == <<iri, local_name>>
lpgVars == <<graph, schema, last>>
rdfVars == <<store, rdf_schema, rdf_last>>
mcpVars == <<environ, _graph, tool>>
finchVars == <<enable_aws_resource_write, finch>>
toolVars == <<sparql_call, server, mcpVars, finchVars, nulls>>
vars == <<iri, local_name, graph, schema, last, store, rdf_schema, rdf_last, sparql_call, server,
          environ, _graph, tool, enable_aws_resource_write, finch, nulls>>

----------------------------------------------------------------------------
(* Python helpers *)

None == <<>>
Some(x) == <<x>>
IsNone(o) == o = <<>>
TheValue(o) == o[1]

Returned(v) == [exc |-> "", value |-> v]
Raised(e) == [exc |-> e, value |-> <<>>]

\* the parts of the connection that a specification leaves untouched
IdleIri ==
    /\ iri = <<>>
    /\ local_name = None

IdleLpg ==
    /\ graph = <<>>
    /\ schema = None
    /\ last = <<>>

IdleRdf ==
    /\ store = <<>>
    /\ rdf_schema = None
    /\ rdf_last = <<>>

IdleMcp ==
    /\ environ = <<>>
    /\ _graph = None
    /\ tool = <<>>

IdleFinch ==
    /\ enable_aws_resource_write = FALSE
    /\ finch = <<>>

IdleTools ==
    /\ sparql_call = None
    /\ server = None
    /\ IdleMcp
    /\ IdleFinch
    /\ nulls = None

Range(s) == {s[i] : i \in 1..Len(s)}

Min(a, b) == IF a < b THEN a ELSE b

\* s[:n]
Take(s, n) == SubSeq(s, 1, Min(n, Len(s)))

\* s.find(c) + 1, for a c that occurs in s
FirstIndex(s, c) == CHOOSE i \in 1..Len(s) : s[i] = c /\ \A j \in 1..(i-1) : s[j] # c

\* s.rfind(c) + 1, for a c that occurs in s
LastIndex(s, c) == CHOOSE i \in 1..Len(s) : s[i] = c /\ \A j \in (i+1)..Len(s) : s[j] # c

\* str.split(c): cut at every occurrence of c
RECURSIVE split(_, _)
split(s, c) ==
    IF c \notin Range(s) THEN <<s>>
    ELSE LET i == FirstIndex(s, c)
         IN <<SubSeq(s, 1, i - 1)>> \o split(SubSeq(s, i + 1, Len(s)), c)

\* str.rsplit(c, 1): cut once, at the last occurrence of c
rsplit1(s, c) ==
    IF c \notin Range(s) THEN <<s>>
    ELSE LET i == LastIndex(s, c)
         IN <<SubSeq(s, 1, i - 1), SubSeq(s, i + 1, Len(s))>>

----------------------------------------------------------------------------
(* NeptuneDatabase._get_local_name *)

\* first token of split('#') instead of the last '#': splits at the last '#'
get_local_name_last_hash(s) ==
    IF "#" \in Range(s)
    THEN LET tokens == rsplit1(s, "#")
         IN Returned(<<tokens[1] \o <<"#">>, tokens[2]>>)
    ELSE IF "/" \in Range(s)
    THEN LET tokens == rsplit1(s, "/")
         IN Returned(<<tokens[1] \o <<"/">>, tokens[2]>>)
    ELSE Raised("ValueError")

\* split('#', 1) instead of split('#'): the local name keeps later '#'
get_local_name_rest(s) ==
    IF "#" \in Range(s)
    THEN LET i == FirstIndex(s, "#")
         IN Returned(<<SubSeq(s, 1, i), SubSeq(s, i + 1, Len(s))>>)
    ELSE IF "/" \in Range(s)
    THEN LET tokens == rsplit1(s, "/")
         IN Returned(<<tokens[1] \o <<"/">>, tokens[2]>>)
    ELSE Raised("ValueError")

\* split('/') instead of rsplit('/', 1): cuts at the first '/'
get_local_name_first_slash(s) ==
    IF "#" \in Range(s)
    THEN LET tokens == split(s, "#")
         IN Returned(<<tokens[1] \o <<"#">>, tokens[2]>>)
    ELSE IF "/" \in Range(s)
    THEN LET tokens == split(s, "/")
         IN Returned(<<tokens[1] \o <<"/">>, tokens[2]>>)
    ELSE Raised("ValueError")

\* the final else returns a fallback (empty prefix, whole IRI) instead of raising
get_local_name_fallback(s) ==
    IF "#" \in Range(s)
    THEN LET tokens == split(s, "#")
         IN Returned(<<tokens[1] \o <<"#">>, tokens[2]>>)
    ELSE IF "/" \in Range(s)
    THEN LET tokens == rsplit1(s, "/")
         IN Returned(<<tokens[1] \o <<"/">>, tokens[2]>>)
    ELSE Returned(<<<<>>, s>>)

_get_local_name(s) ==
    IF "#" \in Range(s)
    THEN LET tokens == split(s, "#")
         IN Returned(<<tokens[1] \o <<"#">>, tokens[2]>>)
    ELSE IF "/" \in Range(s)
    THEN LET tokens == rsplit1(s, "/")
         IN Returned(<<tokens[1] \o <<"/">>, tokens[2]>>)
    ELSE Raised("ValueError")

----------------------------------------------------------------------------
(* The remote property graph, as the neptunedata client serves it.          *)
(*   nodeLabels, edgeLabels   the label lists of the property-graph summary *)
(*   nodes[l]                 properties(a) of the nodes a labelled l       *)
(*   edges[l]                 the edges of type l in match order, each with *)
(*                            labels(a), labels(b) and properties(e)        *)
(* Every node has at least one label and no property value is null.         *)

NodeLabelU == {"Person", "Movie"}
EdgeLabelU == {"ACTED_IN", "KNOWS"}

MatchLimit == 3000
TripleLimit == 10
SampleLimit == 100

\* RETURN without DISTINCT: every row is kept
NotDistinct(s) == s

\* keep the first occurrence of every element (RETURN DISTINCT)
Distinct(s) ==
    LET firsts == {i \in 1..Len(s) : \A j \in 1..(i - 1) : s[j] # s[i]}
        nth(n) == CHOOSE i \in firsts : Cardinality({j \in firsts : j < i}) = n - 1
    IN [n \in 1..Cardinality(firsts) |-> s[nth(n)]]

\* the pattern query without its final LIMIT 10
triple_query_unlimited(g, e_label) ==
    LET matched == Take(g.edges[e_label], MatchLimit)
        rows == [i \in 1..Len(matched) |->
                    [from |-> matched[i].from, edge |-> e_label, to |-> matched[i].to]]
    IN Distinct(rows)

\* the result of triple_query for e_label:
\*   MATCH (a)-[e:`{e_label}`]->(b) WITH a,e,b LIMIT 3000
\*   RETURN DISTINCT labels(a) AS from, type(e) AS edge, labels(b) AS to LIMIT 10
triple_query(g, e_label) ==
    LET matched == Take(g.edges[e_label], MatchLimit)
        rows == [i \in 1..Len(matched) |->
                    [from |-> matched[i].from, edge |-> e_label, to |-> matched[i].to]]
    IN Take(Distinct(rows), TripleLimit)

\* the result of node_properties_query for n_label:
\*   MATCH (a:`{n_label}`) RETURN properties(a) AS props LIMIT 100
node_properties_query(g, n_label) ==
    LET sampled == Take(g.nodes[n_label], SampleLimit)
    IN [i \in 1..Len(sampled) |-> [props |-> sampled[i]]]

\* the result of edge_properties_query for e_label:
\*   MATCH ()-[e:`{e_label}`]->() RETURN properties(e) AS props LIMIT 100
edge_properties_query(g, e_label) ==
    LET sampled == Take(g.edges[e_label], SampleLimit)
    IN [i \in 1..Len(sampled) |-> [props |-> sampled[i].props]]

----------------------------------------------------------------------------
(* NeptuneDatabase: the property-graph schema build *)

\* the RelationshipPattern entries appended for the rows of one edge label
TriplesOf(data) ==
    [i \in 1..Len(data) |->
        [left_node |-> data[i].from[1], right_node |-> data[i].to[1], relation |-> data[i].edge]]

RECURSIVE _get_triples(_, _)
_get_triples(g, e_labels) ==
    IF e_labels = <<>> THEN <<>>
    ELSE TriplesOf(triple_query(g, e_labels[1]))
            \o _get_triples(g, SubSeq(e_labels, 2, Len(e_labels)))

types ==
    [str |-> "STRING", float |-> "DOUBLE", int |-> "INTEGER",
     list |-> "LIST", dict |-> "MAP", bool |-> "BOOLEAN"]

DictKeys(d) == {d[i][1] : i \in 1..Len(d)}
DictIndex(d, k) == CHOOSE i \in 1..Len(d) : d[i][1] = k
DictGet(d, k) == d[DictIndex(d, k)][2]

\* props[k] = {prop_type} on every value: the last type seen wins
AddTypeOverwrite(props, k, prop_type) ==
    IF k \notin DictKeys(props)
    THEN Append(props, <<k, {prop_type}>>)
    ELSE [props EXCEPT ![DictIndex(props, k)] = <<k, {prop_type}>>]

\* if k not in props: props[k] = {prop_type}  else: props[k].update([prop_type])
AddType(props, k, prop_type) ==
    IF k \notin DictKeys(props)
    THEN Append(props, <<k, {prop_type}>>)
    ELSE [props EXCEPT ![DictIndex(props, k)] = <<k, DictGet(props, k) \cup {prop_type}>>]

\* for k, v in p['props'].items(): ...
RECURSIVE ScanItems(_, _)
ScanItems(props, items) ==
    IF items = <<>> THEN props
    ELSE ScanItems(AddType(props, items[1][1], types[items[1][2].py]),
                   SubSeq(items, 2, Len(items)))

\* for p in resp: ...
RECURSIVE ScanRows(_, _)
ScanRows(props, resp) ==
    IF resp = <<>> THEN props
    ELSE ScanRows(ScanItems(props, resp[1].props), SubSeq(resp, 2, Len(resp)))

\* one Property per sampled row, named after the first key of the row: the
\* rows are not merged by key
PropertyListPerRow(resp) ==
    LET rows == SelectSeq(resp, LAMBDA p : p.props # <<>>)
    IN [i \in 1..Len(rows) |->
           [name |-> rows[i].props[1][1], type |-> {types[rows[i].props[1][2].py]}]]

\* properties.append(Property(name=k, type=list(v))); the list enumerates the
\* set v in no particular order and is kept as the set
PropertyList(resp) ==
    LET props == ScanRows(<<>>, resp)
    IN [i \in 1..Len(props) |-> [name |-> props[i][1], type |-> props[i][2]]]

RECURSIVE _get_node_properties(_, _)
_get_node_properties(g, n_labels) ==
    IF n_labels = <<>> THEN <<>>
    ELSE <<[labels |-> n_labels[1],
            properties |-> PropertyList(node_properties_query(g, n_labels[1]))]>>
            \o _get_node_properties(g, SubSeq(n_labels, 2, Len(n_labels)))

RECURSIVE _get_edge_properties(_, _)
_get_edge_properties(g, e_labels) ==
    IF e_labels = <<>> THEN <<>>
    ELSE <<[type |-> e_labels[1],
            properties |-> PropertyList(edge_properties_query(g, e_labels[1]))]>>
            \o _get_edge_properties(g, SubSeq(e_labels, 2, Len(e_labels)))

\* what client.get_propertygraph_summary() returns when it does not raise:
\*   "summary"               {'payload': {'graphSummary': {...}}}
\*   "dict_without_summary"  a dict (what the client returns) without
\*                           payload.graphSummary, e.g. {} or {'payload': {}}
\*   "object_with_content"   a subscriptable object without graphSummary that
\*                           has a bytes attribute `content`
SummaryShapes == {"summary", "dict_without_summary", "object_with_content"}

\* _get_summary: a raising client call is wrapped in NeptuneException; for a
\* response without payload.graphSummary the handler evaluates
\* response.content.decode(), which raises AttributeError on a dict
_get_summary(g, raises, shape) ==
    IF raises THEN Raised("NeptuneException")
    ELSE IF shape = "summary"
    THEN Returned([nodeLabels |-> g.nodeLabels, edgeLabels |-> g.edgeLabels])
    ELSE IF shape = "object_with_content"
    THEN Raised("NeptuneException")
    ELSE Raised("AttributeError")

\* summary['nodeLabels'], summary['edgeLabels']
_get_labels(g) == <<g.nodeLabels, g.edgeLabels>>

\* the GraphSchema a complete build produces from the graph g
_refresh_lpg_schema(g) ==
    LET n_labels == _get_labels(g)[1]
        e_labels == _get_labels(g)[2]
    IN [nodes |-> _get_node_properties(g, n_labels),
        relationships |-> _get_edge_properties(g, e_labels),
        relationship_patterns |-> _get_triples(g, e_labels)]

\* a build that issues one openCypher query before looking at the labels
RequestsProbing(g) == 2 + 2 * Len(g.edgeLabels) + Len(g.nodeLabels)

\* remote requests of a complete build: the summary, then one pattern query and
\* one property query per edge label and one property query per node label
Requests(g) == 1 + 2 * Len(g.edgeLabels) + Len(g.nodeLabels)

EmptyGraphSchema == [nodes |-> <<>>, relationships |-> <<>>, relationship_patterns |-> <<>>]

----------------------------------------------------------------------------
(* NeptuneDatabase: the memoized property-graph schema accessors *)

IsAccessor(op) == op \in {"get_lpg_schema", "propertygraph_schema"}

\* last: the operation, the one before it, whether it found the cache set, the
\* exception it raised, the value it returned, the outcome of its _get_summary
\* call (None when it made none) and the requests it issued
NoCall == [op |-> "init", prev |-> "init", hit |-> FALSE, exc |-> "", result |-> None,
           summary |-> None, summaryCalls |-> 0, cypherCalls |-> 0]

\* a failing request is answered with an empty result instead of an exception
BuildErrorSwallowed(failAt) == ""

\* the exception a build raises when its failAt-th remote request fails: a
\* failing summary request is wrapped by _get_summary, a failing openCypher
\* request propagates as the client raised it
BuildError(failAt) == IF failAt = 1 THEN "NeptuneException" ELSE "ClientError"

\* `if self.schema is None` evaluated the wrong way round: the build runs on
\* every call that finds the cache set and never when it is unset
ShouldRefreshAlways(cache) == TRUE

\* if self.schema is None
ShouldRefresh(cache) == IsNone(cache)

\* _refresh_lpg_schema without `self.schema = graph`: nothing is cached
NotMemoized(graph_schema) == None

\* self.schema = graph
Memoized(graph_schema) == Some(graph_schema)

\* return self.schema if self.schema else GraphSchema(nodes=[], ...); a pydantic
\* model instance is always truthy
ReturnValue(cache) == IF ~IsNone(cache) THEN TheValue(cache) ELSE EmptyGraphSchema

\* one call of get_lpg_schema; failAt = 0 when every remote request succeeds,
\* otherwise the number of the request that raises; shape is the shape of the
\* summary response
Access(op, failAt, shape) ==
    LET summary == _get_summary(graph, failAt = 1, shape)
    IN IF ~ShouldRefresh(schema)
       THEN /\ last' = [op |-> op, prev |-> last.op, hit |-> ~IsNone(schema), exc |-> "",
                        result |-> Some(ReturnValue(schema)), summary |-> None,
                        summaryCalls |-> 0, cypherCalls |-> 0]
            /\ failAt = 0
            /\ shape = "summary"
            /\ UNCHANGED schema
       ELSE IF summary.exc # ""
       THEN /\ UNCHANGED schema
            /\ failAt = 1 => shape = "summary"
            /\ failAt \in {0, 1}
            /\ last' = [op |-> op, prev |-> last.op, hit |-> ~IsNone(schema),
                        exc |-> summary.exc, result |-> None, summary |-> Some(summary),
                        summaryCalls |-> 1, cypherCalls |-> 0]
       ELSE IF failAt = 0
       THEN /\ schema' = Memoized(_refresh_lpg_schema(graph))
            /\ last' = [op |-> op, prev |-> last.op, hit |-> ~IsNone(schema), exc |-> "",
                        result |-> Some(ReturnValue(schema')), summary |-> Some(summary),
                        summaryCalls |-> 1, cypherCalls |-> Requests(graph) - 1]
       ELSE /\ UNCHANGED schema
            /\ last' = [op |-> op, prev |-> last.op, hit |-> ~IsNone(schema),
                        exc |-> BuildError(failAt), result |-> None, summary |-> Some(summary),
                        summaryCalls |-> 1, cypherCalls |-> failAt - 1]

get_lpg_schema ==
    /\ \E failAt \in 0..Requests(graph), shape \in SummaryShapes :
          Access("get_lpg_schema", failAt, shape)
    /\ UNCHANGED <<graph, iriVars, rdfVars, toolVars>>

propertygraph_schema ==
    /\ \E failAt \in 0..Requests(graph), shape \in SummaryShapes :
          Access("propertygraph_schema", failAt, shape)
    /\ UNCHANGED <<graph, iriVars, rdfVars, toolVars>>

\* the caller clears the cache field: db.schema = None
ResetSchema ==
    /\ schema' = None
    /\ last' = [NoCall EXCEPT !.op = "reset", !.prev = last.op]
    /\ UNCHANGED <<graph, iriVars, rdfVars, toolVars>>

----------------------------------------------------------------------------
(* Bounded remote graphs *)

MaxRows == 2
MaxDup == 2
MaxPatterns == 12

IntValue == [py |-> "int", repr |-> "30"]
FloatValue == [py |-> "float", repr |-> "25.5"]
StrValue == [py |-> "str", repr |-> "Al"]
BoolValue == [py |-> "bool", repr |-> "True"]
ListValue == [py |-> "list", repr |-> "[1]"]
MapValue == [py |-> "dict", repr |-> "{'k': 1}"]

PropertyKeys == {"age", "name"}

\* the values that the rows of one sample mix under one key
PropertyValues == {IntValue, FloatValue}

\* the other kinds of value a JSON property map holds
OtherValues == {StrValue, BoolValue, ListValue, MapValue}

\* property maps: JSON objects with distinct keys, in document order
Rows ==
    {r \in UNION {[1..n -> PropertyKeys \X PropertyValues] : n \in 0..Cardinality(PropertyKeys)} :
        \A i, j \in 1..Len(r) : r[i][1] = r[j][1] => i = j}

FromLists == << <<"Person">>, <<"Person", "Actor">>, <<"Director">>, <<"Actor">> >>
ToLists == << <<"Movie">>, <<"Movie", "Film">>, <<"Person">>, <<"Show">> >>

\* the i-th (labels(a), labels(b)) combination, labels(a) varying fastest
PairAt(i) ==
    [from |-> FromLists[((i - 1) % Len(FromLists)) + 1],
     to |-> ToLists[(((i - 1) \div Len(FromLists)) % Len(ToLists)) + 1]]

\* k distinct combinations, each matched by dup edges without properties
Stream(k, dup) ==
    [j \in 1..(k * dup) |->
        [from |-> PairAt(((j - 1) \div dup) + 1).from,
         to |-> PairAt(((j - 1) \div dup) + 1).to,
         props |-> <<>>]]

\* one edge Person -> Person per property map of rs
EdgesWith(rs) ==
    [i \in 1..Len(rs) |-> [from |-> <<"Person">>, to |-> <<"Person">>, props |-> rs[i]]]

NoNodes == [l \in NodeLabelU |-> <<>>]
NoEdges == [l \in EdgeLabelU |-> <<>>]

MkGraph(nl, el, ns, es) == [nodeLabels |-> nl, edgeLabels |-> el, nodes |-> ns, edges |-> es]

\* a graph that stresses the pattern query: ACTED_IN with k distinct
\* combinations matched dup times each, next to one KNOWS combination
TripleGraph(k, dup) ==
    MkGraph(<<>>, <<"KNOWS", "ACTED_IN">>, NoNodes,
            [l \in EdgeLabelU |-> IF l = "ACTED_IN" THEN Stream(k, dup) ELSE EdgesWith(<<<<>>, <<>>>>)])

\* a graph that stresses the node property sample
NodeGraph(rs) ==
    MkGraph(<<"Person">>, <<>>, [l \in NodeLabelU |-> IF l = "Person" THEN rs ELSE <<>>], NoEdges)

\* a graph that stresses the edge property sample
EdgeGraph(rs) ==
    MkGraph(<<>>, <<"KNOWS">>, NoNodes,
            [l \in EdgeLabelU |-> IF l = "KNOWS" THEN EdgesWith(rs) ELSE <<>>])

SmallNodes ==
    << [l \in NodeLabelU |->
           IF l = "Person"
           THEN << <<<<"age", IntValue>>>>, <<<<"name", StrValue>>, <<"age", FloatValue>>>> >>
           ELSE << <<<<"name", StrValue>>>> >>],
       [l \in NodeLabelU |->
           IF l = "Person" THEN << <<<<"name", StrValue>>>> >> ELSE <<>>] >>

SmallEdges ==
    << [l \in EdgeLabelU |-> IF l = "ACTED_IN" THEN Stream(2, 2) ELSE EdgesWith(<<<<>>>>)],
       [l \in EdgeLabelU |->
           IF l = "ACTED_IN" THEN Stream(1, 1) ELSE EdgesWith(<<<<<<"age", IntValue>>>>>>)] >>

\* small graphs that an outside writer turns into one another
SmallGraphs ==
    {MkGraph(nl, el, SmallNodes[v], SmallEdges[v]) :
        nl \in {<<>>, <<"Person">>, <<"Person", "Movie">>},
        el \in {<<>>, <<"ACTED_IN">>, <<"ACTED_IN", "KNOWS">>},
        v \in 1..2}

\* another client of the database changes the graph
WriteGraph ==
    /\ graph' \in SmallGraphs \ {graph}
    /\ UNCHANGED <<schema, last, iriVars, rdfVars, toolVars>>

Init ==
    /\ graph \in SmallGraphs
    /\ schema = None
    /\ last = NoCall
    /\ IdleIri
    /\ IdleRdf
    /\ IdleTools

Next == get_lpg_schema \/ propertygraph_schema \/ ResetSchema \/ WriteGraph

Spec == Init /\ [][Next]_vars

InitSample ==
    /\ \/ \E k \in 0..MaxPatterns, dup \in 1..MaxDup : graph = TripleGraph(k, dup)
       \/ \E n \in 0..MaxRows : \E rs \in [1..n -> Rows] : graph = NodeGraph(rs)
       \/ \E n \in 0..MaxRows : \E rs \in [1..n -> Rows] : graph = EdgeGraph(rs)
       \/ \E v, w \in OtherValues \cup {IntValue} :
             \/ graph = NodeGraph(<< <<<<"name", v>>>>, <<<<"name", w>>>> >>)
             \/ graph = EdgeGraph(<< <<<<"name", v>>>>, <<<<"name", w>>>> >>)
    /\ schema = None
    /\ last = NoCall
    /\ IdleIri
    /\ IdleRdf
    /\ IdleTools

NextSample == get_lpg_schema \/ propertygraph_schema \/ ResetSchema

SpecSample == InitSample /\ [][NextSample]_vars

----------------------------------------------------------------------------
(* Properties of the property-graph schema cache *)

\* this step is an accessor call (with an effect on the observation)
AccessorStep == IsAccessor(last'.op) /\ last' # last

\* C1: when an accessor call has returned and the next operation on the
\* connection is again an accessor call (no reset of `schema` in between), that
\* call issues no summary request and no openCypher query and returns the schema
\* the first call returned; a first call on an unset cache and the second call
\* together run one build.
C1_SecondCallCached ==
    [][(IsAccessor(last.op) /\ last.exc = "" /\ AccessorStep) =>
          /\ last'.exc = ""
          /\ last'.hit
          /\ last'.summaryCalls = 0
          /\ last'.cypherCalls = 0
          /\ last'.result = last.result
          /\ schema' = schema
          /\ ~last.hit => last.summaryCalls + last'.summaryCalls = 1]_vars

\* a second call has returned the cached schema although the graph has changed
\* since the build, so that a second build would have produced another schema
C1_Witness ==
    /\ IsAccessor(last.op)
    /\ IsAccessor(last.prev)
    /\ last.hit
    /\ last.result = schema
    /\ TheValue(schema).nodes # <<>>
    /\ TheValue(schema) # _refresh_lpg_schema(graph)

\* C3: the cache field is written at most once between explicit resets: a set
\* field changes only by a reset, no accessor call rewrites it, and the accessor
\* call that follows a reset starts exactly one refresh and, when the refresh
\* raises nothing, caches and returns the schema built from the current graph.
C3_WrittenOncePerReset ==
    [][/\ (~IsNone(schema) /\ schema' # schema) => (last'.op = "reset" /\ IsNone(schema'))
       /\ (AccessorStep /\ ~IsNone(schema)) => schema' = schema
       /\ (AccessorStep /\ last.op = "reset") =>
             /\ ~last'.hit
             /\ last'.summaryCalls = 1
             /\ last'.exc = "" =>
                   /\ schema' = Some(_refresh_lpg_schema(graph))
                   /\ last'.result = schema'
                   /\ last'.cypherCalls = Requests(graph) - 1
             /\ last'.exc # "" => IsNone(schema')]_vars

\* the call after a reset has rebuilt the schema from a graph with one node
\* label and two edge labels
C3_Witness ==
    /\ IsAccessor(last.op)
    /\ last.prev = "reset"
    /\ ~last.hit
    /\ last.exc = ""
    /\ last.summaryCalls = 1
    /\ last.cypherCalls = 5
    /\ last.result = schema
    /\ TheValue(schema).relationship_patterns # <<>>

----------------------------------------------------------------------------
(* Properties of the build, on the schema cached for an unchanging graph *)

Built == ~IsNone(schema)
TheSchema == TheValue(schema)

\* the type tags of the values stored under key k in the rows of a response
ObservedTypes(resp, k) ==
    {types[resp[ij[1]].props[ij[2]][2].py] :
        ij \in {ij \in (1..Len(resp)) \X (1..Cardinality(PropertyKeys)) :
                   /\ ij[2] <= Len(resp[ij[1]].props)
                   /\ resp[ij[1]].props[ij[2]][1] = k}}

ObservedKeys(resp) ==
    {resp[ij[1]].props[ij[2]][1] :
        ij \in {ij \in (1..Len(resp)) \X (1..Cardinality(PropertyKeys)) :
                   ij[2] <= Len(resp[ij[1]].props)}}

Reverse(s) == [i \in 1..Len(s) |-> s[Len(s) + 1 - i]]

\* the property list holds one entry per observed key, with the union of the
\* type tags observed for it, and the same tags when the rows come reversed
UnionOfTypes(properties, resp) ==
    /\ {properties[i].name : i \in 1..Len(properties)} = ObservedKeys(resp)
    /\ \A i, j \in 1..Len(properties) : properties[i].name = properties[j].name => i = j
    /\ \A i \in 1..Len(properties) :
          /\ properties[i].type = ObservedTypes(resp, properties[i].name)
          /\ \E j \in 1..Len(properties) :
                /\ PropertyList(Reverse(resp))[j].name = properties[i].name
                /\ PropertyList(Reverse(resp))[j].type = properties[i].type

\* C8: for each node label and each edge label of the built schema, the type
\* list of a property is the set of the type tags of all values observed for
\* that key across the sampled rows of the label, whatever the order of the rows.
C8_TypeUnion ==
    Built =>
        /\ \A i \in 1..Len(TheSchema.nodes) :
              UnionOfTypes(TheSchema.nodes[i].properties,
                           node_properties_query(graph, TheSchema.nodes[i].labels))
        /\ \A i \in 1..Len(TheSchema.relationships) :
              UnionOfTypes(TheSchema.relationships[i].properties,
                           edge_properties_query(graph, TheSchema.relationships[i].type))

\* Person nodes sampled with age 30 and then age 25.5: age is {INTEGER, DOUBLE}
C8_Witness ==
    /\ Built
    /\ graph.nodeLabels = <<"Person">>
    /\ graph.nodes["Person"] = << <<<<"age", IntValue>>>>, <<<<"age", FloatValue>>>> >>
    /\ TheSchema.nodes[1].properties = <<[name |-> "age", type |-> {"INTEGER", "DOUBLE"}]>>

PatternsOf(graph_schema, e_label) ==
    {i \in 1..Len(graph_schema.relationship_patterns) :
        graph_schema.relationship_patterns[i].relation = e_label}

\* C9: for every edge label the built schema records at most 10 relationship
\* patterns, however many matches and distinct (from, to) combinations the
\* graph holds for that label.
C9_AtMostTenPerLabel ==
    Built => \A e_label \in EdgeLabelU : Cardinality(PatternsOf(TheSchema, e_label)) <= TripleLimit

\* ACTED_IN has more than 10 distinct combinations and got exactly 10 patterns
C9_Witness ==
    /\ Built
    /\ Cardinality({<<e.from, e.to>> : e \in Range(graph.edges["ACTED_IN"])}) > TripleLimit
    /\ Cardinality(PatternsOf(TheSchema, "ACTED_IN")) = TripleLimit
    /\ Len(TheSchema.relationship_patterns) > TripleLimit

DistinctRows(g, e_label) ==
    {<<e.from, e.to>> : e \in Range(Take(g.edges[e_label], MatchLimit))}

----------------------------------------------------------------------------
(* Properties of the summary request of the property-graph build *)

EmptySummary == [nodeLabels |-> <<>>, edgeLabels |-> <<>>]

\* C11: an accessor call whose summary request reported no node labels and no
\* edge labels raised nothing, issued no openCypher query, and returned (and
\* cached) the schema with empty nodes, relationships and relationship_patterns.
C11_EmptySummaryEmptySchema ==
    (IsAccessor(last.op) /\ last.summary = Some(Returned(EmptySummary))) =>
        /\ last.exc = ""
        /\ last.summaryCalls = 1
        /\ last.cypherCalls = 0
        /\ last.result = Some(EmptyGraphSchema)
        /\ schema = Some(EmptyGraphSchema)

\* a build on a graph that holds nodes and edges while its summary lists no
\* label has returned the empty schema
C11_Witness ==
    /\ IsAccessor(last.op)
    /\ last.summary = Some(Returned(EmptySummary))
    /\ last.result = Some(EmptyGraphSchema)
    /\ last.cypherCalls = 0
    /\ graph.nodes["Person"] # <<>>

\* the last accessor call made a summary request that failed: the client call
\* raised, or the response held no payload.graphSummary
SummaryFailed ==
    /\ IsAccessor(last.op)
    /\ ~IsNone(last.summary)
    /\ TheValue(last.summary).exc # ""

\* C12: whenever the summary request of a build fails, whatever the shape of
\* the response, the accessor call raises NeptuneException and no other
\* exception type.
C12_SummaryFailureIsNeptuneException ==
    SummaryFailed => last.exc = "NeptuneException"

----------------------------------------------------------------------------
(* NeptuneDatabase.get_rdf_schema: the scan of the SPARQL bindings.          *)
(* A binding is a record [has, s, p, o]: has is the set of its keys, s the   *)
(* subject IRI (a character sequence), p and o the predicate and the object. *)

RDF_TYPE == "rdf:type"
RDFS_LABEL == "rdfs:label"
RDFS_COMMENT == "rdfs:comment"
RDFS_SUBCLASSOF == "rdfs:subClassOf"
RDFS_SUBPROPERTYOF == "rdfs:subPropertyOf"
RDFS_DOMAIN == "rdfs:domain"
RDFS_RANGE == "rdfs:range"
OWL_ONTOLOGY == "owl:Ontology"
OWL_CLASS == "owl:Class"
OWL_DATATYPEPROPERTY == "owl:DatatypeProperty"
OWL_OBJECTPROPERTY == "owl:ObjectProperty"

\* the fields pydantic knows for RDFGraphSchema (models.py); setting any other
\* attribute on an instance raises ValueError, and unknown constructor
\* arguments are ignored
RDFGraphSchemaFields ==
    {"distinct_prefixes", "ontologies", "classes", "rels", "dtprops", "oprops"}

OntologyItem(uri) == [uri |-> uri, label |-> None, comment |-> None]
ClassItem(uri, local) ==
    [uri |-> uri, local |-> local, parent_uri |-> None, label |-> None, comment |-> None]
PropertyItem(uri, local) ==
    [uri |-> uri, local |-> local, parent_uri |-> None, domain_uri |-> None,
     range_uri |-> None, label |-> None, comment |-> None]
URIItem(uri, local) == [uri |-> uri, local |-> local]

\* d[k] = v
DictPut(d, k, v) ==
    IF k \in DictKeys(d) THEN [d EXCEPT ![DictIndex(d, k)] = <<k, v>>] ELSE Append(d, <<k, v>>)

\* list(d.values())
DictValues(d) == [i \in 1..Len(d) |-> d[i][2]]

\* if prefix not in prefixes: prefixes[prefix] = f'ns{len(prefixes)}'
AddPrefix(prefixes, prefix) ==
    IF prefix \in DictKeys(prefixes) THEN prefixes
    ELSE Append(prefixes, <<prefix, [ns |-> Len(prefixes)]>>)

EmptyScan ==
    [prefixes |-> <<>>, ontologies |-> <<>>, classes |-> <<>>,
     dtprops |-> <<>>, oprops |-> <<>>, rels |-> <<>>]

\* "Process ontology"
OntologyChain(st, s, p, o) ==
    IF p = RDF_TYPE /\ o = OWL_ONTOLOGY
    THEN [st EXCEPT !.ontologies = DictPut(@, s, OntologyItem(s))]
    ELSE IF p = RDFS_LABEL /\ s \in DictKeys(st.ontologies)
    THEN [st EXCEPT !.ontologies[DictIndex(st.ontologies, s)][2].label = Some(o)]
    ELSE IF p = RDFS_COMMENT /\ s \in DictKeys(st.ontologies)
    THEN [st EXCEPT !.ontologies[DictIndex(st.ontologies, s)][2].comment = Some(o)]
    ELSE st

\* "Process classes"
ClassChain(st, s, p, o) ==
    IF p = RDF_TYPE /\ o = OWL_CLASS
    THEN LET r == _get_local_name(s)
         IN IF r.exc = "ValueError" THEN st
            ELSE [st EXCEPT
                    !.prefixes = AddPrefix(@, r.value[1]),
                    !.classes = IF s \in DictKeys(@) THEN @
                                ELSE Append(@, <<s, ClassItem(s, r.value[2])>>)]
    ELSE IF p = RDFS_SUBCLASSOF /\ s \in DictKeys(st.classes)
    THEN [st EXCEPT !.classes[DictIndex(st.classes, s)][2].parent_uri = Some(o)]
    ELSE IF p = RDFS_LABEL /\ s \in DictKeys(st.classes)
    THEN [st EXCEPT !.classes[DictIndex(st.classes, s)][2].label = Some(o)]
    ELSE IF p = RDFS_COMMENT /\ s \in DictKeys(st.classes)
    THEN [st EXCEPT !.classes[DictIndex(st.classes, s)][2].comment = Some(o)]
    ELSE st

\* the elif branches shared by the two property chains
PropertyAttribute(props, s, p, o) ==
    IF p = RDFS_SUBPROPERTYOF /\ s \in DictKeys(props)
    THEN [props EXCEPT ![DictIndex(props, s)][2].parent_uri = Some(o)]
    ELSE IF p = RDFS_DOMAIN /\ s \in DictKeys(props)
    THEN [props EXCEPT ![DictIndex(props, s)][2].domain_uri = Some(o)]
    ELSE IF p = RDFS_RANGE /\ s \in DictKeys(props)
    THEN [props EXCEPT ![DictIndex(props, s)][2].range_uri = Some(o)]
    ELSE IF p = RDFS_LABEL /\ s \in DictKeys(props)
    THEN [props EXCEPT ![DictIndex(props, s)][2].label = Some(o)]
    ELSE IF p = RDFS_COMMENT /\ s \in DictKeys(props)
    THEN [props EXCEPT ![DictIndex(props, s)][2].comment = Some(o)]
    ELSE props

\* "Process datatype properties"
DatatypePropertyChain(st, s, p, o) ==
    IF p = RDF_TYPE /\ o = OWL_DATATYPEPROPERTY
    THEN LET r == _get_local_name(s)
         IN IF r.exc = "ValueError" THEN st
            ELSE [st EXCEPT
                    !.prefixes = AddPrefix(@, r.value[1]),
                    !.dtprops = IF s \in DictKeys(@) THEN @
                                ELSE Append(@, <<s, PropertyItem(s, r.value[2])>>)]
    ELSE [st EXCEPT !.dtprops = PropertyAttribute(@, s, p, o)]

\* "Process object properties"
ObjectPropertyChain(st, s, p, o) ==
    IF p = RDF_TYPE /\ o = OWL_OBJECTPROPERTY
    THEN LET r == _get_local_name(s)
         IN IF r.exc = "ValueError" THEN st
            ELSE [st EXCEPT
                    !.prefixes = AddPrefix(@, r.value[1]),
                    !.oprops = IF s \in DictKeys(@) THEN @
                               ELSE Append(@, <<s, PropertyItem(s, r.value[2])>>),
                    !.rels = IF s \in DictKeys(st.oprops) THEN @
                             ELSE Append(@, URIItem(s, r.value[2]))]
    ELSE [st EXCEPT !.oprops = PropertyAttribute(@, s, p, o)]

\* the body of `for binding in bindings`
ScanBinding(st, binding) ==
    IF {"s", "p", "o"} \subseteq binding.has
    THEN ObjectPropertyChain(
             DatatypePropertyChain(
                 ClassChain(
                     OntologyChain(st, binding.s, binding.p, binding.o),
                     binding.s, binding.p, binding.o),
                 binding.s, binding.p, binding.o),
             binding.s, binding.p, binding.o)
    ELSE st

RECURSIVE ScanBindings(_, _)
ScanBindings(st, bindings) ==
    IF bindings = <<>> THEN st
    ELSE ScanBindings(ScanBinding(st, bindings[1]), SubSeq(bindings, 2, Len(bindings)))

\* RDFGraphSchema(distinct_prefixes={}, classes=[], rels=[], dtprops=[],
\*                oprops=[], rdfclasses=[], predicates=[])
NewRDFGraphSchema ==
    [distinct_prefixes |-> <<>>, ontologies |-> <<>>, classes |-> <<>>,
     rels |-> <<>>, dtprops |-> <<>>, oprops |-> <<>>]

\* "Update schema elements": the schema a complete build produces; sparql is
\* the response of the CONSTRUCT query
BuiltRDFGraphSchema(sparql) ==
    LET st == IF sparql.hasResults THEN ScanBindings(EmptyScan, sparql.bindings) ELSE EmptyScan
    IN [distinct_prefixes |-> st.prefixes,
        ontologies |-> DictValues(st.ontologies),
        classes |-> DictValues(st.classes),
        rels |-> st.rels,
        dtprops |-> DictValues(st.dtprops),
        oprops |-> DictValues(st.oprops)]

----------------------------------------------------------------------------
(* NeptuneDatabase.get_rdf_schema: the memoized accessor *)

\* rdf_last: as `last`; fail names the remote request of the call that raised
NoRdfCall == [op |-> "init", prev |-> "init", hit |-> FALSE, exc |-> "", result |-> None,
              fail |-> "none", summaryCalls |-> 0, sparqlCalls |-> 0]

\* the early return is missing: every call builds
RdfCachedNever(cache) == FALSE

\* if self.rdf_schema is not None: return self.rdf_schema
RdfCached(cache) == ~IsNone(cache)

\* one call of get_rdf_schema; fail names the remote request that fails
RdfAccess(fail) ==
    LET observed == [op |-> "get_rdf_schema", prev |-> rdf_last.op,
                     hit |-> ~IsNone(rdf_schema), exc |-> "",
                     result |-> None, fail |-> fail,
                     summaryCalls |-> 0, sparqlCalls |-> 0]
    IN IF RdfCached(rdf_schema)
       THEN /\ fail = "none"
            /\ rdf_last' = [observed EXCEPT !.result = rdf_schema]
            /\ UNCHANGED rdf_schema
       ELSE IF fail = "summary"
       THEN \* client.get_rdf_graph_summary() raises
            /\ rdf_last' = [observed EXCEPT !.exc = "ClientError", !.summaryCalls = 1]
            /\ UNCHANGED rdf_schema
       ELSE IF ~({"rdfclasses", "predicates"} \subseteq RDFGraphSchemaFields)
       THEN \* schema_elements.rdfclasses = ... is rejected by pydantic
            /\ fail = "none"
            /\ rdf_last' = [observed EXCEPT !.exc = "ValueError", !.summaryCalls = 1]
            /\ UNCHANGED rdf_schema
       ELSE IF fail = "sparql"
       THEN \* self._query_sparql(classes_query) raises
            /\ rdf_last' = [observed EXCEPT !.exc = "ClientError", !.summaryCalls = 1,
                                            !.sparqlCalls = 1]
            /\ UNCHANGED rdf_schema
       ELSE /\ rdf_schema' = Some(BuiltRDFGraphSchema(store.sparql))
            /\ rdf_last' = [observed EXCEPT !.result = rdf_schema', !.summaryCalls = 1,
                                            !.sparqlCalls = 1]

get_rdf_schema ==
    /\ \E fail \in {"none", "summary", "sparql"} : RdfAccess(fail)
    /\ UNCHANGED <<store, iriVars, lpgVars, toolVars>>

----------------------------------------------------------------------------
(* Bounded remote RDF stores and the RDF schema cache *)

MaxBindings == 2

Triple(s, p, o) == [has |-> {"s", "p", "o"}, s |-> s, p |-> p, o |-> o]

BindingU ==
    {Triple(<<"a", "#", "b">>, RDF_TYPE, OWL_CLASS),
     Triple(<<"a", "#", "b">>, RDFS_LABEL, "Label"),
     Triple(<<"a", "/", "c">>, RDF_TYPE, OWL_OBJECTPROPERTY),
     Triple(<<"b">>, RDF_TYPE, OWL_CLASS),
     Triple(<<"b", "/", "o">>, RDF_TYPE, OWL_ONTOLOGY)}

Stores ==
    {[classes |-> <<>>, predicates |-> <<>>, sparql |-> [hasResults |-> TRUE, bindings |-> bs]] :
        bs \in UNION {[1..n -> BindingU] : n \in 0..MaxBindings}}

\* the bindings of an ontology with a label, a class with a label, a datatype
\* property with a domain and an object property with a domain
ExampleBindings ==
    << Triple(<<"a", "/", "o">>, RDF_TYPE, OWL_ONTOLOGY),
       Triple(<<"a", "/", "o">>, RDFS_LABEL, "Example Ontology"),
       Triple(<<"a", "#", "b">>, RDF_TYPE, OWL_CLASS),
       Triple(<<"a", "#", "b">>, RDFS_LABEL, "Person"),
       Triple(<<"a", "/", "c">>, RDF_TYPE, OWL_DATATYPEPROPERTY),
       Triple(<<"a", "/", "c">>, RDFS_DOMAIN, "Person"),
       Triple(<<"a", "/", "d">>, RDF_TYPE, OWL_OBJECTPROPERTY),
       Triple(<<"a", "/", "d">>, RDFS_DOMAIN, "Person") >>

\* the schemas a caller stores in the cache field
AssignableSchemas ==
    {NewRDFGraphSchema,
     BuiltRDFGraphSchema([hasResults |-> TRUE, bindings |-> ExampleBindings]),
     BuiltRDFGraphSchema([hasResults |-> TRUE, bindings |-> SubSeq(ExampleBindings, 3, 4)])}

\* the caller sets the cache field: db.rdf_schema = <an RDFGraphSchema>
AssignRdfSchema ==
    /\ rdf_schema' \in {Some(x) : x \in AssignableSchemas}
    /\ rdf_schema' # rdf_schema
    /\ rdf_last' = [NoRdfCall EXCEPT !.op = "assign", !.prev = rdf_last.op]
    /\ UNCHANGED <<store, iriVars, lpgVars, toolVars>>

\* the caller clears the cache field: db.rdf_schema = None
ResetRdfSchema ==
    /\ rdf_schema' = None
    /\ rdf_last' = [NoRdfCall EXCEPT !.op = "reset", !.prev = rdf_last.op]
    /\ UNCHANGED <<store, iriVars, lpgVars, toolVars>>

\* another client of the database changes the RDF store
WriteStore ==
    /\ store' \in Stores \ {store}
    /\ UNCHANGED <<rdf_schema, rdf_last, iriVars, lpgVars, toolVars>>

InitRdf ==
    /\ store \in Stores
    /\ rdf_schema = None
    /\ rdf_last = NoRdfCall
    /\ IdleIri
    /\ IdleLpg
    /\ IdleTools

NextRdf == get_rdf_schema \/ AssignRdfSchema \/ ResetRdfSchema \/ WriteStore

SpecRdf == InitRdf /\ [][NextRdf]_vars

\* this step is a get_rdf_schema call (with an effect on the observation)
RdfAccessStep == rdf_last'.op = "get_rdf_schema" /\ rdf_last' # rdf_last

\* C2: once the cache field `rdf_schema` is set, every get_rdf_schema call
\* returns the cached schema, leaves the field unchanged and issues neither a
\* get_rdf_graph_summary request nor a SPARQL query.
C2_RdfCacheReturned ==
    [][(~IsNone(rdf_schema) /\ RdfAccessStep) =>
          /\ rdf_last'.exc = ""
          /\ rdf_last'.result = rdf_schema
          /\ rdf_schema' = rdf_schema
          /\ rdf_last'.summaryCalls = 0
          /\ rdf_last'.sparqlCalls = 0]_vars

\* a call has returned a cached schema with a class, whatever the store holds
C2_Witness ==
    /\ rdf_last.op = "get_rdf_schema"
    /\ rdf_last.prev = "get_rdf_schema"
    /\ rdf_last.hit
    /\ rdf_last.result = rdf_schema
    /\ Len(TheValue(rdf_schema).classes) = 1
    /\ TheValue(rdf_schema).classes[1].label = Some("Person")
    /\ TheValue(rdf_schema) # BuiltRDFGraphSchema(store.sparql)

----------------------------------------------------------------------------
(* Properties of the RDF schema build *)

Declarations == {OWL_CLASS, OWL_DATATYPEPROPERTY, OWL_OBJECTPROPERTY}

IsComplete(binding) == {"s", "p", "o"} \subseteq binding.has

\* a class or property declaration whose subject _get_local_name rejects
Malformed(binding) ==
    /\ IsComplete(binding)
    /\ binding.p = RDF_TYPE
    /\ binding.o \in Declarations
    /\ _get_local_name(binding.s).exc = "ValueError"

WellFormed(binding) == ~Malformed(binding)

\* a class or property declaration whose subject _get_local_name splits
SplitDeclaration(binding) ==
    /\ IsComplete(binding)
    /\ binding.p = RDF_TYPE
    /\ binding.o \in Declarations
    /\ _get_local_name(binding.s).exc = ""

\* the namespace prefixes of the split declarations, in first-seen order
DeclaredPrefixes(bindings) ==
    LET decl == SelectSeq(bindings, SplitDeclaration)
    IN Distinct([i \in 1..Len(decl) |-> _get_local_name(decl[i].s).value[1]])

\* this step is a get_rdf_schema call on an unset cache none of whose remote
\* requests raises
UncachedBuild ==
    /\ RdfAccessStep
    /\ IsNone(rdf_schema)
    /\ rdf_last'.fail = "none"

\* C13: a build over a response that holds a class or property declaration
\* with a subject containing neither '#' nor '/' does not fail and returns the
\* schema that the response without the malformed declarations gives.
C13_MalformedDeclarationSkipped ==
    [][(UncachedBuild /\ \E i \in 1..Len(store.sparql.bindings) :
                            Malformed(store.sparql.bindings[i])) =>
          /\ rdf_last'.exc = ""
          /\ rdf_last'.result =
                Some(BuiltRDFGraphSchema(
                    [store.sparql EXCEPT !.bindings = SelectSeq(@, WellFormed)]))]_vars

C15_EverySubjectPrefixKnown ==
    [][UncachedBuild =>
          /\ rdf_last'.exc = ""
          /\ \A i \in 1..Len(store.sparql.bindings) :
                LET binding == store.sparql.bindings[i]
                IN (/\ IsComplete(binding)
                    /\ binding.p = RDF_TYPE
                    /\ binding.o \in Declarations \cup {OWL_ONTOLOGY}
                    /\ _get_local_name(binding.s).exc = "") =>
                       _get_local_name(binding.s).value[1] \in
                           DictKeys(TheValue(rdf_last'.result).distinct_prefixes)]_vars

\* C16: a build returns a schema whose rels and oprops have the same length
\* and, position by position, the same uri and local name.
C16_RelsMirrorObjectProperties ==
    [][UncachedBuild =>
          /\ rdf_last'.exc = ""
          /\ LET built == TheValue(rdf_last'.result)
             IN /\ Len(built.rels) = Len(built.oprops)
                /\ \A i \in 1..Len(built.rels) :
                      /\ built.rels[i].uri = built.oprops[i].uri
                      /\ built.rels[i].local = built.oprops[i].local]_vars

----------------------------------------------------------------------------
(* Direct calls of _get_local_name on bounded IRIs *)

MaxIriLen == 4

Alphabet == {"#", "/", "a", "b"}

Iris == UNION {[1..n -> Alphabet] : n \in 0..MaxIriLen}

InitIri ==
    /\ iri \in Iris
    /\ local_name = None
    /\ IdleLpg
    /\ IdleRdf
    /\ IdleTools

\* db._get_local_name(iri)
CallGetLocalName ==
    /\ IsNone(local_name)
    /\ local_name' = Some(_get_local_name(iri))
    /\ UNCHANGED <<iri, lpgVars, rdfVars, toolVars>>

\* the caller moves on to another IRI
PickIri ==
    /\ ~IsNone(local_name)
    /\ iri' \in Iris
    /\ local_name' = None
    /\ UNCHANGED <<lpgVars, rdfVars, toolVars>>

NextIri == CallGetLocalName \/ PickIri

SpecIri == InitIri /\ [][NextIri]_vars

HasHash == "#" \in Range(iri)
HasSlash == "/" \in Range(iri)
Called == ~IsNone(local_name)
Outcome == TheValue(local_name)
Prefix == Outcome.value[1]
Local == Outcome.value[2]
Count(s, c) == Cardinality({i \in 1..Len(s) : s[i] = c})
AfterFirstHash == SubSeq(iri, FirstIndex(iri, "#") + 1, Len(iri))
IsPrefixOf(p, s) == Len(p) <= Len(s) /\ SubSeq(s, 1, Len(p)) = p

\* C4 (as stated): for every IRI containing '#', the prefix is the IRI through
\* the first '#' inclusive and the local name is the whole remainder after it.
C4_AsStated ==
    (Called /\ HasHash) =>
        /\ Outcome.exc = ""
        /\ Prefix = SubSeq(iri, 1, FirstIndex(iri, "#"))
        /\ Local = AfterFirstHash

\* C4 (amended): for every IRI containing '#', the prefix is the IRI through
\* the first '#' inclusive and the local name is the remainder after that '#'
\* cut before the next '#', if there is one.
C4_FirstHashSegment ==
    (Called /\ HasHash) =>
        /\ Outcome.exc = ""
        /\ Prefix = SubSeq(iri, 1, FirstIndex(iri, "#"))
        /\ Local = IF "#" \in Range(AfterFirstHash)
                   THEN SubSeq(AfterFirstHash, 1, FirstIndex(AfterFirstHash, "#") - 1)
                   ELSE AfterFirstHash

\* an IRI with two '#' has been split: the text after the second '#' is dropped
C4_Witness ==
    /\ Called
    /\ Count(iri, "#") = 2
    /\ Local # <<>>
    /\ Local # AfterFirstHash

\* C5 (as stated): for every IRI containing '#', the split is made at the last
\* '#': local name = suffix after the last '#', prefix = everything through it.
C5_AsStated ==
    (Called /\ HasHash) =>
        /\ Outcome.exc = ""
        /\ Prefix = SubSeq(iri, 1, LastIndex(iri, "#"))
        /\ Local = SubSeq(iri, LastIndex(iri, "#") + 1, Len(iri))

\* C5 (amended): the split is made at the first '#': the prefix contains a
\* single '#', its last character; the local name contains no '#' and is
\* directly followed in the IRI by a '#' or by the end of the IRI.  The result
\* is the split at the last '#' exactly when the IRI contains a single '#'.
C5_SplitAtFirstHash ==
    (Called /\ HasHash) =>
        /\ Outcome.exc = ""
        /\ Count(Prefix, "#") = 1
        /\ Prefix[Len(Prefix)] = "#"
        /\ "#" \notin Range(Local)
        /\ IsPrefixOf(Prefix \o Local, iri)
        /\ \/ Prefix \o Local = iri
           \/ iri[Len(Prefix) + Len(Local) + 1] = "#"
        /\ (Count(iri, "#") = 1) <=>
               /\ Prefix = SubSeq(iri, 1, LastIndex(iri, "#"))
               /\ Local = SubSeq(iri, LastIndex(iri, "#") + 1, Len(iri))

\* an IRI whose first and last '#' differ has been split at the first one
C5_Witness ==
    /\ Called
    /\ HasHash
    /\ FirstIndex(iri, "#") # LastIndex(iri, "#")
    /\ Len(Prefix) = FirstIndex(iri, "#")
    /\ Len(Prefix) > 1

\* C6: for every IRI with '/' and no '#', the prefix is the IRI through the
\* last '/' inclusive and the local name is the (possibly empty) rest; when the
\* IRI contains both '#' and '/', it is cut at a '#', not at a '/'.
C6_LastSlash ==
    Called =>
        /\ (HasSlash /\ ~HasHash) =>
              /\ Outcome.exc = ""
              /\ Prefix = SubSeq(iri, 1, LastIndex(iri, "/"))
              /\ Local = SubSeq(iri, LastIndex(iri, "/") + 1, Len(iri))
        /\ (HasSlash /\ HasHash) =>
              /\ Outcome.exc = ""
              /\ Prefix = SubSeq(iri, 1, FirstIndex(iri, "#"))
              /\ Prefix[Len(Prefix)] = "#"

\* an IRI with several '/' and no '#' has been split, with an empty local name
C6_Witness ==
    /\ Called
    /\ ~HasHash
    /\ Count(iri, "/") >= 2
    /\ iri[1] # "/"
    /\ Local = <<>>

\* C7: a direct call raises ValueError, returning nothing, exactly for the IRIs
\* that contain neither '#' nor '/'.
C7_ValueErrorIffNeither ==
    Called =>
        /\ Outcome.exc \in {"", "ValueError"}
        /\ (Outcome.exc = "ValueError") <=> (~HasHash /\ ~HasSlash)
        /\ (Outcome.exc = "ValueError") => Outcome.value = <<>>
        /\ (Outcome.exc = "") => Len(Outcome.value) = 2

\* a non-empty IRI without '#' and '/' has been rejected
C7_Witness ==
    /\ Called
    /\ Len(iri) >= 2
    /\ ~HasHash
    /\ ~HasSlash
    /\ Outcome.exc = "ValueError"

----------------------------------------------------------------------------
(* NeptuneDatabase._query_sparql: the signed SPARQL request.                 *)
(* A query is a character sequence; the HTTP exchange is a record            *)
(* [raises, status_code, text]: requests.request raises, or returns a        *)
(* response with that status and body.                                       *)

NL == "\n"

\* str.splitlines(): cut at every line end, no empty last line after a final one
splitlines(s) ==
    LET parts == split(s, NL)
    IN IF parts[Len(parts)] = <<>> THEN SubSeq(parts, 1, Len(parts) - 1) ELSE parts

IsSpace(c) == c \in {" ", NL}

\* str.strip()
strip(s) ==
    IF \A i \in 1..Len(s) : IsSpace(s[i]) THEN <<>>
    ELSE LET first == CHOOSE i \in 1..Len(s) : ~IsSpace(s[i]) /\ \A j \in 1..(i - 1) : IsSpace(s[j])
             final == CHOOSE i \in 1..Len(s) : ~IsSpace(s[i]) /\ \A j \in (i + 1)..Len(s) : IsSpace(s[j])
         IN SubSeq(s, first, final)

\* sep.join(parts)
RECURSIVE join(_, _)
join(sep, parts) ==
    IF parts = <<>> THEN <<>>
    ELSE IF Len(parts) = 1 THEN parts[1]
    ELSE parts[1] \o <<sep>> \o join(sep, Tail(parts))

\* ' '.join(line.strip() for line in query.splitlines())
SingleLine(query) ==
    LET lines == splitlines(query)
    IN join(" ", [i \in 1..Len(lines) |-> strip(lines[i])])

\* the values of SPARQLWrapper.queryType, and two values in lower case
QueryTypes ==
    {"SELECT", "CONSTRUCT", "ASK", "DESCRIBE", "INSERT", "DELETE", "LOAD", "select", "insert"}

\* str.upper()
upper(t) ==
    CASE t = "select" -> "SELECT"
      [] t = "insert" -> "INSERT"
      [] OTHER -> t

\* only SELECT is sent as a query
IsQuerySelectOnly(query_type) == query_type = "SELECT"

\* if query_type in ['SELECT', 'CONSTRUCT', 'ASK', 'DESCRIBE']
IsQuery(query_type) == query_type \in {"SELECT", "CONSTRUCT", "ASK", "DESCRIBE"}

\* response bodies: a SPARQL result document, the JSON error document the
\* endpoint sends with an error status, and a body that is not JSON
ResponseTexts == {"json_results", "json_error", "not_json"}

\* json.loads(resp.text)
json_loads(text) ==
    IF text = "not_json" THEN Raised("JSONDecodeError") ELSE Returned([json |-> text])

\* one call of _query_sparql: the request it sends and its outcome
_query_sparql(query, queryType, http) ==
    LET q == SingleLine(query)
        query_type == upper(queryType)
        accept == DictPut(<<>>, "Accept", "application/json")
        data == IF IsQuery(query_type) THEN <<"query=">> \o q ELSE <<"update=">> \o q
        chosen == DictPut(accept, "Content-Type",
                          IF IsQuery(query_type) THEN "application/sparql-query"
                          ELSE "application/sparql-update")
        headers == DictPut(chosen, "Content-Type", "application/x-www-form-urlencoded")
        signed == DictPut(headers, "Authorization", "AWS4-HMAC-SHA256")
    IN [request |-> [method |-> "POST", data |-> data, headers |-> signed],
        outcome |-> IF http.raises THEN Raised("RequestException") ELSE json_loads(http.text)]

----------------------------------------------------------------------------
(* Bounded SPARQL calls *)

MaxQueryLen == 3

QueryAlphabet == {"q", " ", NL}
Queries == UNION {[1..n -> QueryAlphabet] : n \in 0..MaxQueryLen}

StatusCodes == {200, 400, 500}

HttpExchanges ==
    {[raises |-> TRUE, status_code |-> 0, text |-> "not_json"]} \cup
    {[raises |-> FALSE, status_code |-> c, text |-> t] : c \in StatusCodes, t \in ResponseTexts}

\* a caller is about to run _query_sparql(query) against an endpoint that will
\* answer with http
InitSparql ==
    /\ \E query \in Queries, queryType \in QueryTypes, http \in HttpExchanges :
          sparql_call = Some([query |-> query, queryType |-> queryType, http |-> http,
                              request |-> None, outcome |-> None])
    /\ server = None
    /\ IdleMcp
    /\ IdleFinch
    /\ nulls = None
    /\ IdleIri
    /\ IdleLpg
    /\ IdleRdf

query_sparql ==
    /\ ~IsNone(sparql_call)
    /\ IsNone(TheValue(sparql_call).outcome)
    /\ LET call == TheValue(sparql_call)
           done == _query_sparql(call.query, call.queryType, call.http)
       IN sparql_call' = Some([call EXCEPT !.request = Some(done.request),
                                           !.outcome = Some(done.outcome)])
    /\ UNCHANGED <<server, mcpVars, finchVars, nulls, iriVars, lpgVars, rdfVars>>

NextSparql == query_sparql

SpecSparql == InitSparql /\ [][NextSparql]_vars

TheCall == TheValue(sparql_call)
SparqlDone == ~IsNone(sparql_call) /\ ~IsNone(TheCall.outcome)
SentRequest == TheValue(TheCall.request)
SparqlOutcome == TheValue(TheCall.outcome)

IsSuccess(status_code) == status_code \in 200..299

\* C17: a _query_sparql call whose response has a non-success HTTP status
\* raises and returns no result.
C17_NonSuccessStatusRaises ==
    (SparqlDone /\ ~TheCall.http.raises /\ ~IsSuccess(TheCall.http.status_code)) =>
        SparqlOutcome.exc # ""

QueryKeywords == {"SELECT", "CONSTRUCT", "ASK", "DESCRIBE"}

\* the body is query=<q> for a query keyword and update=<q> otherwise, q being
\* the query joined to a single line
BodyByKeyword ==
    SentRequest.data =
        (IF upper(TheCall.queryType) \in QueryKeywords THEN <<"query=">> ELSE <<"update=">>)
            \o SingleLine(TheCall.query)

\* C18 (as stated): the body is query=<q> exactly for SELECT, CONSTRUCT, ASK
\* and DESCRIBE and update=<q> otherwise, and the Content-Type sent is
\* application/sparql-query in the first case and application/sparql-update in
\* the second.
C18_AsStated ==
    SparqlDone =>
        /\ BodyByKeyword
        /\ DictGet(SentRequest.headers, "Content-Type") =
              (IF upper(TheCall.queryType) \in QueryKeywords
               THEN "application/sparql-query" ELSE "application/sparql-update")

\* C18 (amended): the body is query=<q> exactly for SELECT, CONSTRUCT, ASK and
\* DESCRIBE and update=<q> otherwise, and in both cases the request is sent
\* with the one Content-Type application/x-www-form-urlencoded.
C18_BodyByKeywordFormEncoded ==
    SparqlDone =>
        /\ BodyByKeyword
        /\ \A i, j \in 1..Len(SentRequest.headers) :
              SentRequest.headers[i][1] = SentRequest.headers[j][1] => i = j
        /\ DictGet(SentRequest.headers, "Content-Type") = "application/x-www-form-urlencoded"

\* a two-line DESCRIBE query went out as query=<one line>, form-encoded
C18_Witness ==
    /\ SparqlDone
    /\ TheCall.queryType = "DESCRIBE"
    /\ TheCall.query = <<"q", NL, "q">>
    /\ SentRequest.data = <<"query=", "q", " ", "q">>
    /\ DictGet(SentRequest.headers, "Content-Type") = "application/x-www-form-urlencoded"

----------------------------------------------------------------------------
(* NeptuneServer: the connection dispatch and the liveness probe.            *)
(* An endpoint is a sequence of tokens: a scheme ("neptune-db://", ...) is   *)
(* one token, every other token is one character.                            *)

NEPTUNE_DB == "neptune-db://"
NEPTUNE_GRAPH == "neptune-graph://"

startswith(s, prefix) == Len(s) >= 1 /\ s[1] = prefix

\* the identifier kept with every trailing character, a final '/' included
IdentifierWithSlash(endpoint) == Tail(endpoint)

\* the identifier: the endpoint without its scheme and without one trailing '/'
Identifier(endpoint) ==
    LET rest == Tail(endpoint)
    IN IF rest # <<>> /\ rest[Len(rest)] = "/" THEN SubSeq(rest, 1, Len(rest) - 1) ELSE rest

\* the backends NeptuneServer(endpoint) constructs, and the exception it raises
NeptuneServer(endpoint) ==
    IF startswith(endpoint, NEPTUNE_DB)
    THEN [exc |-> "", backends |-> <<[type |-> "NeptuneDatabase", arg |-> Identifier(endpoint)]>>]
    ELSE IF startswith(endpoint, NEPTUNE_GRAPH)
    THEN [exc |-> "", backends |-> <<[type |-> "NeptuneAnalytics", arg |-> Identifier(endpoint)]>>]
    ELSE [exc |-> "ValueError", backends |-> <<>>]

\* the exceptions the backend's query_opencypher raises ("" when it returns)
QueryFailures == {"", "ClientError", "NeptuneException", "ValueError"}

\* a probe without the handler: the exception of the query reaches the caller
status_unhandled(failure) ==
    [queries |-> <<"RETURN 1">>,
     outcome |-> IF failure = "" THEN Returned("Available") ELSE Raised(failure)]

\* NeptuneServer.status(): the queries it issues on the backend and its outcome
status(failure) ==
    [queries |-> <<"RETURN 1">>,
     outcome |-> IF failure = "" THEN Returned("Available") ELSE Returned("Unavailable")]

MaxEndpointLen == 3

EndpointAlphabet == {NEPTUNE_DB, NEPTUNE_GRAPH, "http://", "h", "/"}
Endpoints == UNION {[1..n -> EndpointAlphabet] : n \in 0..MaxEndpointLen}

\* server: the endpoint, the last operation, the backends constructed so far,
\* the exception or result of the last operation and the queries it issued
InitServer ==
    /\ \E endpoint \in Endpoints :
          server = Some([endpoint |-> endpoint, op |-> "none", backends |-> <<>>,
                         exc |-> "", result |-> None, queries |-> <<>>])
    /\ sparql_call = None
    /\ IdleMcp
    /\ IdleFinch
    /\ nulls = None
    /\ IdleIri
    /\ IdleLpg
    /\ IdleRdf

\* server = NeptuneServer(endpoint)
NewNeptuneServer ==
    /\ ~IsNone(server)
    /\ TheValue(server).op = "none"
    /\ LET made == NeptuneServer(TheValue(server).endpoint)
       IN server' = Some([TheValue(server) EXCEPT !.op = "NeptuneServer",
                                                  !.backends = made.backends,
                                                  !.exc = made.exc])
    /\ UNCHANGED <<sparql_call, mcpVars, finchVars, nulls, iriVars, lpgVars, rdfVars>>

\* server.status() on a constructed server
CallStatus ==
    /\ ~IsNone(server)
    /\ TheValue(server).op # "none"
    /\ TheValue(server).backends # <<>>
    /\ \E failure \in QueryFailures :
          LET probe == status(failure)
          IN server' = Some([TheValue(server) EXCEPT !.op = "status",
                                                     !.exc = probe.outcome.exc,
                                                     !.result = Some(probe.outcome.value),
                                                     !.queries = probe.queries])
    /\ UNCHANGED <<sparql_call, mcpVars, finchVars, nulls, iriVars, lpgVars, rdfVars>>

NextServer == NewNeptuneServer \/ CallStatus

SpecServer == InitServer /\ [][NextServer]_vars

TheServer == TheValue(server)
Constructed == ~IsNone(server) /\ TheServer.op # "none"

\* the endpoint with its scheme token and one trailing '/' removed
HostOf(endpoint) ==
    IF Len(endpoint) >= 2 /\ endpoint[Len(endpoint)] = "/"
    THEN SubSeq(endpoint, 2, Len(endpoint) - 1)
    ELSE SubSeq(endpoint, 2, Len(endpoint))

\* C19: NeptuneServer(endpoint) constructs exactly one backend for an endpoint
\* that starts with neptune-db:// (the managed-database backend) or with
\* neptune-graph:// (the analytics backend), with the rest of the endpoint less
\* one trailing slash as its argument; for every other endpoint, the empty one
\* included, it raises ValueError and constructs no backend.
C19_BackendByScheme ==
    Constructed =>
        LET endpoint == TheServer.endpoint
            scheme == IF endpoint = <<>> THEN "" ELSE endpoint[1]
        IN /\ scheme = NEPTUNE_DB =>
                 TheServer.backends = <<[type |-> "NeptuneDatabase", arg |-> HostOf(endpoint)]>>
           /\ scheme = NEPTUNE_GRAPH =>
                 TheServer.backends = <<[type |-> "NeptuneAnalytics", arg |-> HostOf(endpoint)]>>
           /\ scheme \notin {NEPTUNE_DB, NEPTUNE_GRAPH} =>
                 TheServer.backends = <<>> /\ TheServer.exc = "ValueError" /\ TheServer.op = "NeptuneServer"

\* neptune-graph://h/ has constructed the analytics backend for h
C19_Witness ==
    /\ Constructed
    /\ TheServer.endpoint = <<NEPTUNE_GRAPH, "h", "/">>
    /\ TheServer.backends = <<[type |-> "NeptuneAnalytics", arg |-> <<"h">>]>>

\* C20: status() issues the one query RETURN 1 and returns Available or
\* Unavailable; it raises nothing.
C20_StatusNeverRaises ==
    (Constructed /\ TheServer.op = "status") =>
        /\ TheServer.queries = <<"RETURN 1">>
        /\ TheServer.exc = ""
        /\ TheServer.result \in {Some("Available"), Some("Unavailable")}

\* a probe whose query raised has returned Unavailable
C20_Witness ==
    /\ Constructed
    /\ TheServer.op = "status"
    /\ TheServer.result = Some("Unavailable")
    /\ TheServer.exc = ""

----------------------------------------------------------------------------
(* The Neptune MCP server (server.py): the lazily initialized handle _graph  *)
(* and the tool/resource functions, each `return get_graph().<method>(...)`. *)
(* The tools are modelled on the managed-database backend.  The handle is    *)
(* constructed at most once, so the caches `schema` and `rdf_schema` are     *)
(* those of its one NeptuneDatabase.                                         *)

\* os.environ.get(key, None)
environ_get(env, key) == env[key]

\* int(text) for the texts of PortTexts
int(text) == IF text = "8183" THEN Returned(8183) ELSE Raised("ValueError")

\* str.lower() for the texts of HttpsTexts
lower(text) == IF text = "True" THEN "true" ELSE text

\* boto3.Session() / session.client(...) in NeptuneDatabase.__init__: any
\* exception becomes ValueError
NeptuneDatabase(host, port, use_https, credentials) ==
    IF credentials
    THEN Returned([type |-> "NeptuneDatabase", host |-> host, port |-> port,
                   protocol |-> IF use_https THEN "https" ELSE "http"])
    ELSE Raised("ValueError")

\* the handle is rebuilt on every call
ShouldInitializeAlways(handle) == TRUE

\* if _graph is None
ShouldInitialize(handle) == IsNone(handle)

\* one call of get_graph(): its outcome, the handle afterwards, the variables
\* it read from the environment and the number of NeptuneServer(...) calls it
\* made; instances counts the NeptuneServer objects constructed before it
GetGraph(env, handle, instances, credentials) ==
    LET endpoint == environ_get(env, "NEPTUNE_ENDPOINT")
        port_text == environ_get(env, "NEPTUNE_PORT")
        port == IF IsNone(port_text) THEN Returned(8182) ELSE int(TheValue(port_text))
        use_https_value == IF IsNone(environ_get(env, "NEPTUNE_USE_HTTPS")) THEN "True"
                           ELSE TheValue(environ_get(env, "NEPTUNE_USE_HTTPS"))
        use_https == lower(use_https_value) \in {"true", "1", "t"}
        dispatch == NeptuneServer(TheValue(endpoint))
        backend == IF dispatch.exc # "" THEN Raised(dispatch.exc)
                   ELSE IF dispatch.backends[1].type = "NeptuneDatabase"
                   THEN NeptuneDatabase(dispatch.backends[1].arg, port.value, use_https,
                                        credentials)
                   ELSE Returned([type |-> "NeptuneAnalytics", host |-> dispatch.backends[1].arg,
                                  port |-> port.value, protocol |-> "https"])
        made == [id |-> instances + 1, graph |-> backend.value]
    IN IF ~ShouldInitialize(handle)
       THEN [outcome |-> Returned(TheValue(handle)), handle |-> handle, reads |-> <<>>,
             constructorCalls |-> 0, instances |-> instances]
       ELSE IF port.exc # ""
       THEN [outcome |-> Raised("ValueError"), handle |-> handle,
             reads |-> <<"NEPTUNE_ENDPOINT", "NEPTUNE_PORT">>,
             constructorCalls |-> 0, instances |-> instances]
       ELSE IF IsNone(endpoint)
       THEN [outcome |-> Raised("ValueError"), handle |-> handle,
             reads |-> <<"NEPTUNE_ENDPOINT", "NEPTUNE_PORT">>,
             constructorCalls |-> 0, instances |-> instances]
       ELSE IF backend.exc # ""
       THEN [outcome |-> Raised(backend.exc), handle |-> handle,
             reads |-> <<"NEPTUNE_ENDPOINT", "NEPTUNE_PORT", "NEPTUNE_USE_HTTPS">>,
             constructorCalls |-> 1, instances |-> instances]
       ELSE [outcome |-> Returned(made), handle |-> Some(made),
             reads |-> <<"NEPTUNE_ENDPOINT", "NEPTUNE_PORT", "NEPTUNE_USE_HTTPS">>,
             constructorCalls |-> 1, instances |-> instances + 1]

\* the exceptions a neptunedata client call raises
ClientFailures == {"ClientError", "ConnectTimeoutError"}

\* the responses of execute_open_cypher_query / execute_gremlin_query
QueryResponses ==
    { <<<<"result", "rows">>>>,
      <<<<"results", "rows">>, <<"ResponseMetadata", "meta">>>>,
      <<<<"ResponseMetadata", "meta">>>> }

\* json.dumps(params)
json_dumps(value) == [json |-> value]

\* resp['result'] if 'result' in resp else resp['results']
ResultOf(resp) ==
    IF "result" \in DictKeys(resp) THEN Returned(DictGet(resp, "result"))
    ELSE IF "results" \in DictKeys(resp) THEN Returned(DictGet(resp, "results"))
    ELSE Raised("KeyError")

\* NeptuneDatabase.query_opencypher: the request and the outcome, given the
\* outcome of client.execute_open_cypher_query
query_opencypher(query, params, client) ==
    [request |-> IF ~IsNone(params) /\ TheValue(params) # <<>>
                 THEN [openCypherQuery |-> query,
                       parameters |-> Some(json_dumps(TheValue(params)))]
                 ELSE [openCypherQuery |-> query, parameters |-> None],
     outcome |-> IF client.exc # "" THEN Raised(client.exc) ELSE ResultOf(client.value)]

\* NeptuneDatabase.query_gremlin, given the outcome of client.execute_gremlin_query
query_gremlin(query, client) ==
    [request |-> [gremlinQuery |-> query],
     outcome |-> IF client.exc # "" THEN Raised(client.exc) ELSE ResultOf(client.value)]

\* NeptuneServer.query_opencypher / query_gremlin / query_sparql /
\* propertygraph_schema / rdf_schema: the outcome of the backend's method
Delegated(backend_outcome) == backend_outcome

\* a tool function that reports a failure as a returned value
ToolReturnSuppressed(got, method) ==
    IF got.exc # "" THEN got
    ELSE IF method.exc # "" THEN Returned("error") ELSE method

\* return get_graph().<method>(...)
ToolReturn(got, method) == IF got.exc # "" THEN got ELSE method

\* tool: the function called, its outcome, what its get_graph() did, the handle
\* before the call, and the exception raised by a call into the client library
\* (underlying, "" when none was raised) with the name of that call (failed)
NoTool == [op |-> "init", exc |-> "", result |-> None, reads |-> <<>>,
           constructorCalls |-> 0, instances |-> 0, underlying |-> "", failed |-> ""]

ToolObserved(op, got, outcome, underlying, failed) ==
    [op |-> op, exc |-> outcome.exc,
     result |-> IF outcome.exc = "" THEN Some(outcome.value) ELSE None,
     reads |-> got.reads, constructorCalls |-> got.constructorCalls,
     instances |-> got.instances, underlying |-> underlying, failed |-> failed]

\* the handle this call works with is a managed-database one
UsesDatabase(got) == got.outcome.exc = "" => got.outcome.value.graph.type = "NeptuneDatabase"

MaxInstances == 2

\* a direct call of get_graph()
get_graph ==
    /\ \E credentials \in BOOLEAN :
          LET got == GetGraph(environ, _graph, tool.instances, credentials)
          IN /\ got.instances <= MaxInstances
             /\ got.constructorCalls = 0 => credentials
             /\ _graph' = got.handle
             /\ tool' = ToolObserved("get_graph", got, got.outcome, "", "")
    /\ UNCHANGED <<environ, sparql_call, server, finchVars, nulls, iriVars, lpgVars, rdfVars>>

\* get_status() and get_status_resource(): return get_graph().status()
get_status ==
    /\ \E op \in {"get_status", "get_status_resource"}, credentials \in BOOLEAN,
          failure \in QueryFailures :
          LET got == GetGraph(environ, _graph, tool.instances, credentials)
              probe == status(failure)
          IN /\ got.instances <= MaxInstances
             /\ got.constructorCalls = 0 => credentials
             /\ UsesDatabase(got)
             /\ got.outcome.exc # "" => failure = ""
             /\ _graph' = got.handle
             /\ tool' = ToolObserved(op, got, ToolReturn(got.outcome, probe.outcome),
                                     IF got.outcome.exc = "" THEN failure ELSE "",
                                     IF got.outcome.exc = "" /\ failure # ""
                                     THEN "query_opencypher" ELSE "")
    /\ UNCHANGED <<environ, sparql_call, server, finchVars, nulls, iriVars, lpgVars, rdfVars>>

\* get_graph_schema() and get_propertygraph_schema_resource():
\* return get_graph().propertygraph_schema(), which returns graph.get_lpg_schema()
get_graph_schema ==
    /\ \E op \in {"get_graph_schema", "get_propertygraph_schema_resource"},
          credentials \in BOOLEAN :
          LET got == GetGraph(environ, _graph, tool.instances, credentials)
          IN /\ got.instances <= MaxInstances
             /\ got.constructorCalls = 0 => credentials
             /\ UsesDatabase(got)
             /\ _graph' = got.handle
             /\ IF got.outcome.exc # ""
                THEN /\ UNCHANGED <<schema, last>>
                     /\ tool' = ToolObserved(op, got, got.outcome, "", "")
                ELSE \E failAt \in 0..Requests(graph), shape \in SummaryShapes :
                        /\ Access("get_lpg_schema", failAt, shape)
                        /\ tool' = ToolObserved(op, got,
                              ToolReturn(got.outcome,
                                  Delegated(IF last'.exc # "" THEN Raised(last'.exc)
                                            ELSE Returned(TheValue(last'.result)))),
                              IF failAt = 0 THEN "" ELSE "ClientError",
                              IF failAt = 0 THEN ""
                              ELSE IF failAt = 1 THEN "get_propertygraph_summary"
                              ELSE "execute_open_cypher_query")
    /\ UNCHANGED <<environ, graph, sparql_call, server, finchVars, nulls, iriVars, rdfVars>>

\* the tool get_rdf_schema() and get_rdf_schema_resource():
\* return get_graph().rdf_schema(), which returns graph.get_rdf_schema()
get_rdf_schema_resource ==
    /\ \E op \in {"get_rdf_schema", "get_rdf_schema_resource"}, credentials \in BOOLEAN :
          LET got == GetGraph(environ, _graph, tool.instances, credentials)
          IN /\ got.instances <= MaxInstances
             /\ got.constructorCalls = 0 => credentials
             /\ UsesDatabase(got)
             /\ _graph' = got.handle
             /\ IF got.outcome.exc # ""
                THEN /\ UNCHANGED <<rdf_schema, rdf_last>>
                     /\ tool' = ToolObserved(op, got, got.outcome, "", "")
                ELSE \E fail \in {"none", "summary", "sparql"} :
                        /\ RdfAccess(fail)
                        /\ tool' = ToolObserved(op, got,
                              ToolReturn(got.outcome,
                                  Delegated(IF rdf_last'.exc # "" THEN Raised(rdf_last'.exc)
                                            ELSE Returned(TheValue(rdf_last'.result)))),
                              IF fail = "none" THEN "" ELSE "ClientError",
                              IF fail = "none" THEN ""
                              ELSE IF fail = "summary" THEN "get_rdf_graph_summary"
                              ELSE "requests.request")
    /\ UNCHANGED <<environ, store, sparql_call, server, finchVars, nulls, iriVars, lpgVars>>

\* the arguments of the query tools
ToolQueries == {"RETURN 1"}
ToolParameters == {None, Some(<<>>), Some(<<<<"name", "x">>>>)}
ClientOutcomes == {Raised(e) : e \in ClientFailures} \cup {Returned(r) : r \in QueryResponses}

\* run_opencypher_query(query, parameters):
\* return get_graph().query_opencypher(query, parameters)
run_opencypher_query ==
    /\ \E query \in ToolQueries, parameters \in ToolParameters, client \in ClientOutcomes,
          credentials \in BOOLEAN :
          LET got == GetGraph(environ, _graph, tool.instances, credentials)
              call == query_opencypher(query, parameters, client)
          IN /\ got.instances <= MaxInstances
             /\ got.constructorCalls = 0 => credentials
             /\ UsesDatabase(got)
             /\ _graph' = got.handle
             /\ tool' = IF got.outcome.exc # ""
                        THEN ToolObserved("run_opencypher_query", got, got.outcome, "", "")
                        ELSE ToolObserved("run_opencypher_query", got,
                                          ToolReturn(got.outcome, Delegated(call.outcome)),
                                          client.exc,
                                          IF client.exc # "" THEN "execute_open_cypher_query"
                                          ELSE "")
    /\ UNCHANGED <<environ, sparql_call, server, finchVars, nulls, iriVars, lpgVars, rdfVars>>

\* run_gremlin_query(query): return get_graph().query_gremlin(query)
run_gremlin_query ==
    /\ \E query \in ToolQueries, client \in ClientOutcomes, credentials \in BOOLEAN :
          LET got == GetGraph(environ, _graph, tool.instances, credentials)
              call == query_gremlin(query, client)
          IN /\ got.instances <= MaxInstances
             /\ got.constructorCalls = 0 => credentials
             /\ UsesDatabase(got)
             /\ _graph' = got.handle
             /\ tool' = IF got.outcome.exc # ""
                        THEN ToolObserved("run_gremlin_query", got, got.outcome, "", "")
                        ELSE ToolObserved("run_gremlin_query", got,
                                          ToolReturn(got.outcome, Delegated(call.outcome)),
                                          client.exc,
                                          IF client.exc # "" THEN "execute_gremlin_query"
                                          ELSE "")
    /\ UNCHANGED <<environ, sparql_call, server, finchVars, nulls, iriVars, lpgVars, rdfVars>>

\* run_sparql_query(query): return get_graph().query_sparql(query), which
\* returns self._query_sparql(query)
run_sparql_query ==
    /\ \E query \in {<<"q", NL, "q">>}, queryType \in {"SELECT", "INSERT"},
          http \in {h \in HttpExchanges : h.raises \/ h.status_code = 200},
          credentials \in BOOLEAN :
          LET got == GetGraph(environ, _graph, tool.instances, credentials)
              call == _query_sparql(query, queryType, http)
          IN /\ got.instances <= MaxInstances
             /\ got.constructorCalls = 0 => credentials
             /\ UsesDatabase(got)
             /\ _graph' = got.handle
             /\ tool' = IF got.outcome.exc # ""
                        THEN ToolObserved("run_sparql_query", got, got.outcome, "", "")
                        ELSE ToolObserved("run_sparql_query", got,
                                          ToolReturn(got.outcome, Delegated(call.outcome)),
                                          IF http.raises THEN "RequestException" ELSE "",
                                          IF http.raises THEN "requests.request" ELSE "")
    /\ UNCHANGED <<environ, sparql_call, server, finchVars, nulls, iriVars, lpgVars, rdfVars>>

----------------------------------------------------------------------------
(* Bounded environments *)

EndpointTexts == {<<NEPTUNE_DB, "h">>, <<NEPTUNE_DB, "h", "/">>, <<"http://", "h">>}
PortTexts == {"8183", "port"}
HttpsTexts == {"True", "false", "1"}

EnvironValues ==
    [NEPTUNE_ENDPOINT |-> {None} \cup {Some(e) : e \in EndpointTexts \cup {<<NEPTUNE_GRAPH, "g">>}},
     NEPTUNE_PORT |-> {None} \cup {Some(p) : p \in PortTexts},
     NEPTUNE_USE_HTTPS |-> {None} \cup {Some(t) : t \in HttpsTexts}]

\* the process environment changes: os.environ[key] = value, del os.environ[key]
setenv ==
    /\ \E key \in DOMAIN EnvironValues : \E value \in EnvironValues[key] \ {environ[key]} :
          environ' = [environ EXCEPT ![key] = value]
    /\ UNCHANGED <<_graph, tool, sparql_call, server, finchVars, nulls, iriVars, lpgVars, rdfVars>>

InitGraph ==
    /\ environ = [NEPTUNE_ENDPOINT |-> None, NEPTUNE_PORT |-> None, NEPTUNE_USE_HTTPS |-> None]
    /\ _graph = None
    /\ tool = NoTool
    /\ sparql_call = None
    /\ server = None
    /\ IdleFinch
    /\ nulls = None
    /\ IdleIri
    /\ IdleLpg
    /\ IdleRdf

NextGraph == get_graph \/ setenv

SpecGraph == InitGraph /\ [][NextGraph]_vars

InitTools ==
    /\ environ \in [NEPTUNE_ENDPOINT : {None, Some(<<NEPTUNE_DB, "h">>)},
                    NEPTUNE_PORT : {None}, NEPTUNE_USE_HTTPS : {None}]
    /\ _graph = None
    /\ tool = NoTool
    /\ graph \in {MkGraph(<<"Person">>, <<"ACTED_IN">>, SmallNodes[2], SmallEdges[2]),
                  MkGraph(<<>>, <<>>, SmallNodes[2], SmallEdges[2])}
    /\ schema = None
    /\ last = NoCall
    /\ store = [classes |-> <<>>, predicates |-> <<>>,
                sparql |-> [hasResults |-> TRUE, bindings |-> <<>>]]
    /\ rdf_schema = None
    /\ rdf_last = NoRdfCall
    /\ sparql_call = None
    /\ server = None
    /\ IdleFinch
    /\ nulls = None
    /\ IdleIri

NextTools ==
    \/ get_graph
    \/ get_status
    \/ get_graph_schema
    \/ get_rdf_schema_resource
    \/ run_opencypher_query
    \/ run_gremlin_query
    \/ run_sparql_query

SpecTools == InitTools /\ [][NextTools]_vars

----------------------------------------------------------------------------
(* Properties of the tool functions *)

ProbeOps == {"get_status", "get_status_resource"}

\* the last tool call was not the liveness probe and a call it made into the
\* client library raised
UnderlyingFailure == tool.op \notin ProbeOps /\ tool.underlying # ""

\* C21 as stated: apart from the liveness probe, a failure raised by an
\* underlying call during a query or a schema fetch reaches the tool caller
\* unchanged.
C21_AsStated ==
    UnderlyingFailure => tool.exc = tool.underlying

\* C21: apart from the liveness probe, no operation suppresses an error: a
\* failure raised by an underlying call during an openCypher, Gremlin or SPARQL
\* query or during a property-graph or RDF schema fetch reaches the tool
\* caller as a raised exception, unchanged except for a failure of the
\* property-graph summary call, which reaches the caller as NeptuneException.
C21_FailureReachesCaller ==
    UnderlyingFailure =>
        /\ tool.result = None
        /\ tool.exc = IF tool.failed = "get_propertygraph_summary" THEN "NeptuneException"
                      ELSE tool.underlying

\* the summary call of a schema fetch raised ClientError and the tool caller
\* got NeptuneException
C21_Witness ==
    /\ tool.op = "get_graph_schema"
    /\ tool.failed = "get_propertygraph_summary"
    /\ tool.underlying = "ClientError"
    /\ tool.exc = "NeptuneException"

----------------------------------------------------------------------------
(* Properties of get_graph *)

\* this step is a call of get_graph()
GetGraphStep == tool'.op = "get_graph" /\ environ' = environ

\* C22: once a get_graph() call has succeeded, every later get_graph() call
\* returns the same instance, reads nothing from the environment and
\* constructs no NeptuneServer, whatever the environment contains by then; a
\* get_graph() call that fails leaves the handle unset, and a call that finds
\* the handle unset reads the environment to initialize it.
C22_ConfigurationReadOnce ==
    [][GetGraphStep =>
          /\ ~IsNone(_graph) =>
                 /\ _graph' = _graph
                 /\ tool'.exc = ""
                 /\ tool'.result = _graph
                 /\ tool'.reads = <<>>
                 /\ tool'.constructorCalls = 0
                 /\ tool'.instances = tool.instances
          /\ IsNone(_graph) =>
                 /\ tool'.reads # <<>>
                 /\ tool'.exc # "" => _graph' = None
                 /\ tool'.exc = "" => _graph' = tool'.result /\ tool'.constructorCalls = 1]_vars

\* get_graph() returned the handle built for neptune-db://h without reading
\* an environment that no longer names an endpoint
C22_Witness ==
    /\ tool.op = "get_graph"
    /\ tool.reads = <<>>
    /\ tool.instances = 1
    /\ ~IsNone(_graph)
    /\ tool.result = _graph
    /\ TheValue(_graph).graph.host = <<"h">>
    /\ environ.NEPTUNE_ENDPOINT = None

----------------------------------------------------------------------------
(* The Finch MCP server (finch-mcp-server/server.py).  A helper of           *)
(* awslabs.finch_mcp_server.utils is a call with an outcome: it raises, or   *)
(* it returns a dict with a status and a message.  The message names the     *)
(* helper that produced the dict.                                            *)

Statuses == {"success", "error"}

\* the outcomes of the helper `name`
Outcomes(name) ==
    {Returned([status |-> s, message |-> name]) : s \in Statuses} \cup {Raised("Exception")}

\* the outcomes of contains_ecr_reference(dockerfile_path) / is_ecr_repository(image)
Answers == {Returned(TRUE), Returned(FALSE), Raised("Exception")}

\* the outcomes of configure_ecr(): a (config_result, config_changed) pair
ConfigureOutcomes ==
    {Returned([config_result |-> [status |-> s, message |-> "configure_ecr"],
               config_changed |-> c]) : s \in Statuses, c \in BOOLEAN}
        \cup {Raised("Exception")}

\* the outcomes of get_vm_status(): what is_vm_nonexistent, is_vm_stopped and
\* is_vm_running answer for the status it returns
VmStatusOutcomes ==
    {Returned(s) : s \in [nonexistent : BOOLEAN, stopped : BOOLEAN, running : BOOLEAN]}
        \cup {Raised("Exception")}

\* format_result(status, message): {'status': status, 'message': message}
format_result(result_status, message) == [status |-> result_status, message |-> message]

\* Result(**d)
Result(d) == [status |-> d.status, message |-> d.message]

\* no helper result counts as an error
FailedNever(d) == FALSE

\* if result['status'] == 'error'
Failed(d) == d.status = "error"

\* the stopped branch is tested before the nonexistent branch
DispatchStoppedFirst(s) ==
    IF s.stopped THEN "start_stopped_vm"
    ELSE IF s.nonexistent THEN "initialize_vm"
    ELSE IF s.running THEN "running"
    ELSE "unknown"

\* if is_vm_nonexistent(..) / elif is_vm_stopped(..) / elif is_vm_running(..) / else
Dispatch(s) ==
    IF s.nonexistent THEN "initialize_vm"
    ELSE IF s.stopped THEN "start_stopped_vm"
    ELSE IF s.running THEN "running"
    ELSE "unknown"

\* ensure_vm_running(): the helpers it calls, in order, and its outcome; vm holds
\* sys.platform and the outcomes of get_vm_status, initialize_vm, start_stopped_vm
ensure_vm_running(vm) ==
    LET caught == Returned(format_result("error", "Error ensuring Finch VM is running"))
        step(name, outcome, done) ==
            IF outcome.exc # ""
            THEN [calls |-> <<"get_vm_status", name>>, outcome |-> caught]
            ELSE IF Failed(outcome.value)
            THEN [calls |-> <<"get_vm_status", name>>, outcome |-> Returned(outcome.value)]
            ELSE [calls |-> <<"get_vm_status", name>>,
                  outcome |-> Returned(format_result("success", done))]
    IN IF vm.platform = "linux"
       THEN [calls |-> <<>>,
             outcome |-> Returned(format_result("success", "Finch does not use a VM on Linux.."))]
       ELSE IF vm.status.exc # ""
       THEN [calls |-> <<"get_vm_status">>, outcome |-> caught]
       ELSE LET branch == Dispatch(vm.status.value)
            IN IF branch = "initialize_vm"
               THEN step("initialize_vm", vm.init, "Finch VM was initialized successfully.")
               ELSE IF branch = "start_stopped_vm"
               THEN step("start_stopped_vm", vm.start, "Finch VM was started successfully.")
               ELSE IF branch = "running"
               THEN [calls |-> <<"get_vm_status">>,
                     outcome |-> Returned(format_result("success",
                                                        "Finch VM is already running."))]
               ELSE [calls |-> <<"get_vm_status">>,
                     outcome |-> Returned(format_result("error", "Unknown VM status"))]

\* vm_status = ensure_vm_running(); if it reports error return it, otherwise
\* call build_image / push_image (final) and return its result; calls are the
\* helpers called before
VmThen(calls, vm, final, outcome, caught) ==
    LET ensured == ensure_vm_running(vm)
        called == calls \o <<"ensure_vm_running">> \o ensured.calls
    IN IF ensured.outcome.exc # ""
       THEN [calls |-> called, outcome |-> caught]
       ELSE IF Failed(ensured.outcome.value)
       THEN [calls |-> called, outcome |-> Returned(Result(ensured.outcome.value))]
       ELSE IF outcome.exc # ""
       THEN [calls |-> Append(called, final), outcome |-> caught]
       ELSE [calls |-> Append(called, final), outcome |-> Returned(Result(outcome.value))]

\* config_result, config_changed = configure_ecr(); return its error, or
\* stop_vm(force=True) when the configuration changed, then go on as VmThen
LoginThen(calls, w, final, outcome, caught) ==
    LET called == Append(calls, "configure_ecr")
    IN IF w.configure.exc # ""
       THEN [calls |-> called, outcome |-> caught]
       ELSE IF Failed(w.configure.value.config_result)
       THEN [calls |-> called, outcome |-> Returned(Result(w.configure.value.config_result))]
       ELSE IF w.configure.value.config_changed
       THEN IF w.stop.exc # ""
            THEN [calls |-> Append(called, "stop_vm(force=True)"), outcome |-> caught]
            ELSE VmThen(Append(called, "stop_vm(force=True)"), w.vm, final, outcome, caught)
       ELSE VmThen(called, w.vm, final, outcome, caught)

\* finch_build_container_image(...): w holds the outcomes of the helpers
finch_build_container_image(w) ==
    LET caught == Returned(Result(format_result("error", "Error building Docker image")))
    IN IF w.check.exc # ""
       THEN [calls |-> <<"check_finch_installation">>, outcome |-> caught]
       ELSE IF Failed(w.check.value)
       THEN [calls |-> <<"check_finch_installation">>,
             outcome |-> Returned(Result(w.check.value))]
       ELSE IF w.ecr.exc # ""
       THEN [calls |-> <<"check_finch_installation", "contains_ecr_reference">>,
             outcome |-> caught]
       ELSE IF w.ecr.value
       THEN LoginThen(<<"check_finch_installation", "contains_ecr_reference">>, w,
                      "build_image", w.final, caught)
       ELSE VmThen(<<"check_finch_installation", "contains_ecr_reference">>, w.vm,
                   "build_image", w.final, caught)

\* the server refuses no write
ReadOnlyNever(flag) == FALSE

\* if not enable_aws_resource_write
ReadOnly(flag) == ~flag

\* finch_push_image(image) with the flag enable_aws_resource_write
finch_push_image(w, flag) ==
    LET caught == Returned(Result(format_result("error", "Error pushing image")))
    IN IF w.check.exc # ""
       THEN [calls |-> <<"check_finch_installation">>, outcome |-> caught]
       ELSE IF Failed(w.check.value)
       THEN [calls |-> <<"check_finch_installation">>,
             outcome |-> Returned(Result(w.check.value))]
       ELSE IF w.ecr.exc # ""
       THEN [calls |-> <<"check_finch_installation", "is_ecr_repository">>, outcome |-> caught]
       ELSE IF w.ecr.value
       THEN IF ReadOnly(flag)
            THEN [calls |-> <<"check_finch_installation", "is_ecr_repository">>,
                  outcome |-> Returned(Result(format_result("error",
                      "Server running in read-only mode, unable to push to ECR repository")))]
            ELSE LoginThen(<<"check_finch_installation", "is_ecr_repository">>, w,
                           "push_image", w.final, caught)
       ELSE VmThen(<<"check_finch_installation", "is_ecr_repository">>, w.vm,
                   "push_image", w.final, caught)

\* finch_create_ecr_repo(repository_name, region) with the flag
finch_create_ecr_repo(create, flag) ==
    IF ReadOnly(flag)
    THEN [calls |-> <<>>,
          outcome |-> Returned(Result(format_result("error",
              "Server running in read-only mode, unable to perform the action")))]
    ELSE IF create.exc # ""
    THEN [calls |-> <<"create_ecr_repository">>,
          outcome |-> Returned(Result(format_result("error",
              "Error checking/creating ECR repository")))]
    ELSE [calls |-> <<"create_ecr_repository">>, outcome |-> Returned(Result(create.value))]

----------------------------------------------------------------------------
(* Bounded Finch calls.  An outcome that a call does not consult is left at  *)
(* Unused, so that every world stands for one course of the call.            *)

Unused == Raised("unused")

Consulted(calls, name, outcome) == name \notin Range(calls) => outcome = Unused

VmWorlds ==
    {vm \in [platform : {"linux", "darwin"}, status : VmStatusOutcomes \cup {Unused},
             init : Outcomes("initialize_vm") \cup {Unused},
             start : Outcomes("start_stopped_vm") \cup {Unused}] :
        /\ vm.status = Unused <=> vm.platform = "linux"
        /\ vm.init = Unused <=> "initialize_vm" \notin Range(ensure_vm_running(vm).calls)
        /\ vm.start = Unused <=> "start_stopped_vm" \notin Range(ensure_vm_running(vm).calls)}

UnusedVm == [platform |-> "linux", status |-> Unused, init |-> Unused, start |-> Unused]

\* finch: the function called, the flag it saw, the outcomes its helpers had,
\* the helpers it called and its outcome
NoFinch == [op |-> "init", flag |-> FALSE, world |-> <<>>, calls |-> <<>>, outcome |-> Unused]

\* a direct call of ensure_vm_running()
call_ensure_vm_running ==
    /\ \E vm \in VmWorlds :
          LET done == ensure_vm_running(vm)
          IN finch' = [op |-> "ensure_vm_running", flag |-> enable_aws_resource_write,
                       world |-> vm, calls |-> done.calls, outcome |-> done.outcome]
    /\ UNCHANGED <<enable_aws_resource_write, sparql_call, server, mcpVars, nulls, iriVars,
                   lpgVars, rdfVars>>

\* the VM worlds of a build or push: the status satisfies at most one of
\* is_vm_nonexistent, is_vm_stopped and is_vm_running
PlainVmWorlds ==
    {vm \in VmWorlds :
        vm.status.exc = "" =>
            Cardinality({p \in {"nonexistent", "stopped", "running"} : vm.status.value[p]}) <= 1}

\* the outcomes of the helpers of a build or push; final is build_image or
\* push_image
ToolWorlds(final) ==
    [check : Outcomes("check_finch_installation"), ecr : Answers \cup {Unused},
     configure : ConfigureOutcomes \cup {Unused}, stop : Outcomes("stop_vm") \cup {Unused},
     vm : PlainVmWorlds, final : Outcomes(final) \cup {Unused}]

\* w gives an outcome to exactly the helpers in calls
Course(w, calls, ecr, final) ==
    /\ w.ecr = Unused <=> ecr \notin Range(calls)
    /\ w.configure = Unused <=> "configure_ecr" \notin Range(calls)
    /\ w.stop = Unused <=> "stop_vm(force=True)" \notin Range(calls)
    /\ "ensure_vm_running" \notin Range(calls) => w.vm = UnusedVm
    /\ w.final = Unused <=> final \notin Range(calls)

BuildWorlds ==
    {w \in ToolWorlds("build_image") :
        Course(w, finch_build_container_image(w).calls, "contains_ecr_reference", "build_image")}

PushWorldsDisabled ==
    {w \in ToolWorlds("push_image") :
        Course(w, finch_push_image(w, FALSE).calls, "is_ecr_repository", "push_image")}

PushWorldsEnabled ==
    {w \in ToolWorlds("push_image") :
        Course(w, finch_push_image(w, TRUE).calls, "is_ecr_repository", "push_image")}

call_finch_build_container_image ==
    /\ \E w \in BuildWorlds :
          LET done == finch_build_container_image(w)
          IN finch' = [op |-> "finch_build_container_image",
                       flag |-> enable_aws_resource_write, world |-> w,
                       calls |-> done.calls, outcome |-> done.outcome]
    /\ UNCHANGED <<enable_aws_resource_write, sparql_call, server, mcpVars, nulls, iriVars,
                   lpgVars, rdfVars>>

call_finch_push_image ==
    /\ \E w \in IF enable_aws_resource_write THEN PushWorldsEnabled ELSE PushWorldsDisabled :
          LET done == finch_push_image(w, enable_aws_resource_write)
          IN finch' = [op |-> "finch_push_image",
                       flag |-> enable_aws_resource_write, world |-> w,
                       calls |-> done.calls, outcome |-> done.outcome]
    /\ UNCHANGED <<enable_aws_resource_write, sparql_call, server, mcpVars, nulls, iriVars,
                   lpgVars, rdfVars>>

call_finch_create_ecr_repo ==
    /\ \E create \in Outcomes("create_ecr_repository") \cup {Unused} :
          LET done == finch_create_ecr_repo(create, enable_aws_resource_write)
          IN /\ Consulted(done.calls, "create_ecr_repository", create)
             /\ "create_ecr_repository" \in Range(done.calls) => create # Unused
             /\ finch' = [op |-> "finch_create_ecr_repo", flag |-> enable_aws_resource_write,
                          world |-> [final |-> create], calls |-> done.calls,
                          outcome |-> done.outcome]
    /\ UNCHANGED <<enable_aws_resource_write, sparql_call, server, mcpVars, nulls, iriVars,
                   lpgVars, rdfVars>>

\* set_enable_aws_resource_write(enabled)
set_enable_aws_resource_write ==
    /\ \E enabled \in BOOLEAN : enable_aws_resource_write' = enabled
    /\ UNCHANGED <<finch, sparql_call, server, mcpVars, nulls, iriVars, lpgVars, rdfVars>>

InitFinch ==
    /\ enable_aws_resource_write = FALSE
    /\ finch = NoFinch
    /\ sparql_call = None
    /\ server = None
    /\ IdleMcp
    /\ nulls = None
    /\ IdleIri
    /\ IdleLpg
    /\ IdleRdf

NextFinch ==
    \/ call_ensure_vm_running
    \/ call_finch_build_container_image
    \/ call_finch_push_image
    \/ call_finch_create_ecr_repo
    \/ set_enable_aws_resource_write

SpecFinch == InitFinch /\ [][NextFinch]_vars

----------------------------------------------------------------------------
(* Properties of the Finch server *)

HelperCalled(name) == name \in Range(finch.calls)

\* name was called, and before other if other was called
CalledBefore(name, other) ==
    /\ HelperCalled(name)
    /\ HelperCalled(other) => FirstIndex(finch.calls, name) < FirstIndex(finch.calls, other)

ReturnedError == finch.outcome.exc = "" /\ finch.outcome.value.status = "error"

ReportsError(outcome) == outcome.exc = "" /\ outcome.value.status = "error"

\* C23: in read-only mode (enable_aws_resource_write is False)
\* finch_create_ecr_repo returns an error Result and calls nothing, and
\* finch_push_image for an ECR image returns an error Result without calling
\* configure_ecr, stop_vm, ensure_vm_running or push_image; a push to a
\* repository that is not ECR goes on to ensure_vm_running and, when that
\* reports no error, to push_image.
C23_ReadOnlyBlocksWrites ==
    ~finch.flag =>
        /\ finch.op = "finch_create_ecr_repo" =>
               /\ ReturnedError
               /\ finch.calls = <<>>
        /\ (finch.op = "finch_push_image" /\ finch.world.ecr = Returned(TRUE)) =>
               /\ ReturnedError
               /\ finch.calls = <<"check_finch_installation", "is_ecr_repository">>
        /\ (finch.op = "finch_push_image" /\ finch.world.ecr = Returned(FALSE)) =>
               /\ HelperCalled("ensure_vm_running")
               /\ ~HelperCalled("configure_ecr")
               /\ ~ReportsError(ensure_vm_running(finch.world.vm).outcome) =>
                      /\ HelperCalled("push_image")
                      /\ finch.world.final.exc = "" => finch.outcome = finch.world.final

\* a push to ECR was refused in read-only mode after the installation check
\* and the repository test
C23_Witness ==
    /\ finch.op = "finch_push_image"
    /\ ~finch.flag
    /\ finch.world.ecr = Returned(TRUE)
    /\ finch.calls = <<"check_finch_installation", "is_ecr_repository">>
    /\ finch.outcome.value.message =
          "Server running in read-only mode, unable to push to ECR repository"

\* the last call was ensure_vm_running() on a platform other than Linux
VmCall == finch.op = "ensure_vm_running" /\ finch.world.platform # "linux"

\* the step (initialize_vm or start_stopped_vm) has this outcome or was not taken
StepOutcome ==
    IF HelperCalled("initialize_vm") THEN finch.world.init
    ELSE IF HelperCalled("start_stopped_vm") THEN finch.world.start
    ELSE Unused

\* C25: on a platform other than Linux ensure_vm_running tests the VM status
\* for nonexistent, stopped, running in this order: a nonexistent VM leads to
\* initialize_vm only, a stopped one to start_stopped_vm only, a running one
\* to neither and to success, any other status to an error result; an error
\* result of the step is returned unchanged, success is returned only when
\* the step reported no error, and an exception of any call becomes an error
\* result: ensure_vm_running raises nothing.
C25_VmDispatch ==
    VmCall =>
        /\ finch.outcome.exc = ""
        /\ finch.world.status.exc # "" =>
               ReturnedError /\ finch.calls = <<"get_vm_status">>
        /\ finch.world.status.exc = "" =>
               LET vm_status == finch.world.status.value
               IN /\ vm_status.nonexistent =>
                        finch.calls = <<"get_vm_status", "initialize_vm">>
                  /\ (~vm_status.nonexistent /\ vm_status.stopped) =>
                        finch.calls = <<"get_vm_status", "start_stopped_vm">>
                  /\ (~vm_status.nonexistent /\ ~vm_status.stopped /\ vm_status.running) =>
                        /\ finch.calls = <<"get_vm_status">>
                        /\ finch.outcome.value.status = "success"
                  /\ (~vm_status.nonexistent /\ ~vm_status.stopped /\ ~vm_status.running) =>
                        /\ finch.calls = <<"get_vm_status">>
                        /\ ReturnedError
        /\ ReportsError(StepOutcome) => finch.outcome = StepOutcome
        /\ (StepOutcome # Unused /\ StepOutcome.exc # "") => ReturnedError
        /\ (StepOutcome # Unused /\ finch.outcome.value.status = "success") =>
               StepOutcome.exc = "" /\ StepOutcome.value.status # "error"

\* a status that is_vm_nonexistent and is_vm_stopped both accept led to
\* initialize_vm alone, whose error result came back unchanged
C25_Witness ==
    /\ VmCall
    /\ finch.world.status.exc = ""
    /\ finch.world.status.value.nonexistent
    /\ finch.world.status.value.stopped
    /\ finch.calls = <<"get_vm_status", "initialize_vm">>
    /\ finch.outcome = Returned([status |-> "error", message |-> "initialize_vm"])

BuildCall == finch.op = "finch_build_container_image"

\* the outcome of the ensure_vm_running() call of the last build or push
Ensured == ensure_vm_running(finch.world.vm).outcome

\* C26: finch_build_container_image calls build_image only after
\* check_finch_installation, configure_ecr (called exactly when the Dockerfile
\* references ECR) and ensure_vm_running, in this order, reported no error;
\* the first of these that reports error ends the call with that error
\* Result and no later step; stop_vm(force=True) is called exactly when
\* configure_ecr reported no error and a changed configuration, and then
\* before ensure_vm_running; an exception of any step gives an error Result,
\* the call raises nothing.
C26_BuildSteps ==
    BuildCall =>
        LET w == finch.world
        IN /\ finch.outcome.exc = ""
           /\ HelperCalled("build_image") =>
                  /\ ~ReportsError(w.check) /\ w.check.exc = ""
                  /\ CalledBefore("check_finch_installation", "build_image")
                  /\ HelperCalled("configure_ecr") =>
                         /\ w.configure.exc = ""
                         /\ w.configure.value.config_result.status # "error"
                         /\ CalledBefore("check_finch_installation", "configure_ecr")
                         /\ CalledBefore("configure_ecr", "ensure_vm_running")
                  /\ CalledBefore("ensure_vm_running", "build_image")
                  /\ ~ReportsError(Ensured)
                  /\ w.final.exc = "" => finch.outcome = w.final
           /\ HelperCalled("configure_ecr") <=> w.ecr = Returned(TRUE)
           /\ ReportsError(w.check) =>
                  finch.outcome = w.check /\ finch.calls = <<"check_finch_installation">>
           /\ (HelperCalled("configure_ecr") /\ w.configure.exc = ""
                  /\ w.configure.value.config_result.status = "error") =>
                  /\ finch.outcome = Returned(w.configure.value.config_result)
                  /\ finch.calls[Len(finch.calls)] = "configure_ecr"
           /\ (HelperCalled("ensure_vm_running") /\ ReportsError(Ensured)) =>
                  /\ finch.outcome = Ensured
                  /\ ~HelperCalled("build_image")
           /\ HelperCalled("stop_vm(force=True)") <=>
                  /\ HelperCalled("configure_ecr")
                  /\ w.configure.exc = ""
                  /\ w.configure.value.config_result.status # "error"
                  /\ w.configure.value.config_changed
           /\ HelperCalled("stop_vm(force=True)") =>
                  /\ CalledBefore("configure_ecr", "stop_vm(force=True)")
                  /\ CalledBefore("stop_vm(force=True)", "ensure_vm_running")
           /\ (\E exc \in {w.check.exc, w.ecr.exc, w.configure.exc, w.stop.exc, w.final.exc} :
                   exc \notin {"", "unused"}) => ReturnedError

\* a build whose Dockerfile references ECR: the configuration changed, the VM
\* was stopped and then started, and build_image ran last
C26_Witness ==
    /\ BuildCall
    /\ finch.calls = <<"check_finch_installation", "contains_ecr_reference", "configure_ecr",
                       "stop_vm(force=True)", "ensure_vm_running", "get_vm_status",
                       "start_stopped_vm", "build_image">>
    /\ finch.outcome = Returned([status |-> "success", message |-> "build_image"])

----------------------------------------------------------------------------
(* cloudwatch-mcp-server common.py: remove_null_values.  A Python value is   *)
(* a record of its type and its repr.                                        *)

PyValue(type, repr) == [type |-> type, repr |-> repr]

PyNone == PyValue("NoneType", "None")

Values ==
    {PyNone, PyValue("int", "0"), PyValue("int", "1"), PyValue("bool", "False"),
     PyValue("str", "''"), PyValue("str", "'x'"), PyValue("list", "[]")}

\* bool(v): None, zero, False and empty strings and containers are false
bool(v) == v.repr \notin {"None", "0", "False", "''", "[]"}

\* {k: v for k, v in d.items() if v}: the dictionary returned and the argument
\* after the call
remove_null_values(d) ==
    [result |-> SelectSeq(d, LAMBDA kv : bool(kv[2])), d |-> d]

MaxKeys == 2

KeyU == {"a", "b", "c"}

\* a caller is about to run remove_null_values(d)
InitNulls ==
    /\ \E n \in 0..MaxKeys : \E keys \in [1..n -> KeyU], values \in [1..n -> Values] :
          /\ \A i, j \in 1..n : i # j => keys[i] # keys[j]
          /\ nulls = Some([d |-> [i \in 1..n |-> <<keys[i], values[i]>>],
                           after |-> None, result |-> None])
    /\ sparql_call = None
    /\ server = None
    /\ IdleMcp
    /\ IdleFinch
    /\ IdleIri
    /\ IdleLpg
    /\ IdleRdf

call_remove_null_values ==
    /\ ~IsNone(nulls)
    /\ IsNone(TheValue(nulls).result)
    /\ LET done == remove_null_values(TheValue(nulls).d)
       IN nulls' = Some([d |-> TheValue(nulls).d, after |-> Some(done.d),
                         result |-> Some(done.result)])
    /\ UNCHANGED <<sparql_call, server, mcpVars, finchVars, iriVars, lpgVars, rdfVars>>

NextNulls == call_remove_null_values

SpecNulls == InitNulls /\ [][NextNulls]_vars

\* remove_null_values was called
NullsDone == ~IsNone(nulls) /\ ~IsNone(TheValue(nulls).result)

\* C24: remove_null_values(d) returns a new dictionary holding exactly the
\* pairs of d whose value is not None, in d's order (0, False, '' and [] are
\* kept), and leaves d as it was.
C24_OnlyNullsRemoved ==
    NullsDone =>
        LET call == TheValue(nulls)
        IN /\ TheValue(call.result) = SelectSeq(call.d, LAMBDA kv : kv[2] # PyNone)
           /\ TheValue(call.after) = call.d

----------------------------------------------------------------------------
(* Both schema caches of one NeptuneDatabase *)

InitSchemas ==
    /\ graph \in SmallGraphs
    /\ schema = None
    /\ last = NoCall
    /\ store \in {st \in Stores : Len(st.sparql.bindings) <= 1}
    /\ rdf_schema = None
    /\ rdf_last = NoRdfCall
    /\ IdleIri
    /\ IdleTools

NextSchemas == get_lpg_schema \/ propertygraph_schema \/ get_rdf_schema

SpecSchemas == InitSchemas /\ [][NextSchemas]_vars

\* the property-graph build of the call observed in `last` stopped before its
\* last request: the summary raised or a per-label query raised
IncompleteBuild(call) ==
    /\ call.summaryCalls = 1
    /\ \/ TheValue(call.summary).exc # ""
       \/ call.cypherCalls < Requests(graph) - 1

\* C27: a schema build in which a call fails (the property-graph summary, a
\* per-label openCypher query, the RDF summary, the SPARQL CONSTRUCT query)
\* raises, returns nothing and leaves the cache field (`schema`, `rdf_schema`)
\* as it was, unset; a cache field changes only to the schema of a complete
\* build; and an accessor call that finds the field unset starts again with
\* the summary request.
C27_FailedBuildLeavesCacheUnset ==
    [][/\ AccessorStep =>
             /\ IncompleteBuild(last') =>
                    /\ last'.exc # ""
                    /\ last'.result = None
             /\ last'.exc # "" =>
                    /\ last'.result = None
                    /\ schema' = schema
                    /\ IsNone(schema)
             /\ schema' # schema =>
                    /\ last'.exc = ""
                    /\ last'.cypherCalls = Requests(graph) - 1
                    /\ schema' = Some(_refresh_lpg_schema(graph))
             /\ IsNone(schema) => last'.summaryCalls = 1
       /\ RdfAccessStep =>
             /\ rdf_last'.exc # "" =>
                    /\ rdf_last'.result = None
                    /\ rdf_schema' = rdf_schema
                    /\ IsNone(rdf_schema)
             /\ rdf_last'.fail # "none" => rdf_last'.exc # ""
             /\ rdf_schema' # rdf_schema =>
                    /\ rdf_last'.exc = ""
                    /\ rdf_last'.sparqlCalls = 1
             /\ IsNone(rdf_schema) => rdf_last'.summaryCalls = 1]_vars

\* a build that had issued the summary request and two openCypher queries
\* failed, left the cache unset, and so did the call before it
C27_Witness ==
    /\ IsAccessor(last.op)
    /\ IsAccessor(last.prev)
    /\ last.exc = "ClientError"
    /\ last.cypherCalls = 2
    /\ ~last.hit
    /\ IsNone(schema)
    /\ rdf_last.exc = "ClientError"
    /\ IsNone(rdf_schema)

----------------------------------------------------------------------------
(* Properties of the scan of get_rdf_schema *)

\* the four dictionaries of the scan: the list of the returned schema, the
\* rdf:type object that declares a subject, and the attribute predicates with
\* the field each one sets
ScanKinds ==
    {[list |-> "ontologies", type |-> OWL_ONTOLOGY,
      attributes |-> {<<RDFS_LABEL, "label">>, <<RDFS_COMMENT, "comment">>}],
     [list |-> "classes", type |-> OWL_CLASS,
      attributes |-> {<<RDFS_SUBCLASSOF, "parent_uri">>, <<RDFS_LABEL, "label">>,
                      <<RDFS_COMMENT, "comment">>}],
     [list |-> "dtprops", type |-> OWL_DATATYPEPROPERTY,
      attributes |-> {<<RDFS_SUBPROPERTYOF, "parent_uri">>, <<RDFS_DOMAIN, "domain_uri">>,
                      <<RDFS_RANGE, "range_uri">>, <<RDFS_LABEL, "label">>,
                      <<RDFS_COMMENT, "comment">>}],
     [list |-> "oprops", type |-> OWL_OBJECTPROPERTY,
      attributes |-> {<<RDFS_SUBPROPERTYOF, "parent_uri">>, <<RDFS_DOMAIN, "domain_uri">>,
                      <<RDFS_RANGE, "range_uri">>, <<RDFS_LABEL, "label">>,
                      <<RDFS_COMMENT, "comment">>}]}

\* the positions of the triples (s, rdf:type, type)
DeclaredAt(bindings, s, type) ==
    {j \in 1..Len(bindings) :
        /\ IsComplete(bindings[j])
        /\ bindings[j].s = s
        /\ bindings[j].p = RDF_TYPE
        /\ bindings[j].o = type}

\* the positions of the triples (s, p, _) that follow a declaration of s
AttributeAt(bindings, s, type, p) ==
    {i \in 1..Len(bindings) :
        /\ IsComplete(bindings[i])
        /\ bindings[i].s = s
        /\ bindings[i].p = p
        /\ \E j \in DeclaredAt(bindings, s, type) : j < i}

\* the object of the last attribute triple that follows a declaration of s
LastAttribute(bindings, s, type, p) ==
    LET at == AttributeAt(bindings, s, type, p)
    IN IF at = {} THEN None
       ELSE Some(bindings[CHOOSE i \in at : \A k \in at : k <= i].o)

\* C28: a build returns a schema in which every attribute of every entry is
\* the object of the last attribute triple of its subject that follows the
\* subject's rdf:type triple in the binding sequence, and is unset when no
\* attribute triple follows the type triple (a triple that precedes it changes
\* nothing).
C28_AttributeAfterDeclaration ==
    [][UncachedBuild =>
          /\ rdf_last'.exc = ""
          /\ LET built == TheValue(rdf_last'.result)
             IN \A kind \in ScanKinds :
                   \A i \in 1..Len(built[kind.list]) :
                      \A a \in kind.attributes :
                         built[kind.list][i][a[2]] =
                            LastAttribute(store.sparql.bindings, built[kind.list][i].uri,
                                          kind.type, a[1])]_vars

\* the URIs of a list of the schema are pairwise different
UniqueUris(list) ==
    \A i, j \in 1..Len(list) : list[i].uri = list[j].uri => i = j

\* C29: a build returns a schema in which no URI appears twice in ontologies,
\* classes, dtprops, oprops or rels, and in which an attribute that was
\* recorded for an entry before a repeated rdf:type declaration of its subject
\* is still set.
C29_RepeatedDeclarationKeepsEntry ==
    [][UncachedBuild =>
          /\ rdf_last'.exc = ""
          /\ LET built == TheValue(rdf_last'.result)
                 bindings == store.sparql.bindings
             IN /\ \A list \in {"ontologies", "classes", "dtprops", "oprops", "rels"} :
                      UniqueUris(built[list])
                /\ \A kind \in ScanKinds :
                      \A i \in 1..Len(built[kind.list]) :
                         \A a \in kind.attributes :
                            LET s == built[kind.list][i].uri
                            IN (\E k \in DeclaredAt(bindings, s, kind.type) :
                                   \E r \in AttributeAt(bindings, s, kind.type, a[1]) :
                                      r < k) =>
                                  ~IsNone(built[kind.list][i][a[2]])]_vars


----------------------------------------------------------------------------
(* Properties of the entries of a built property-graph schema *)

TypeTags == {"STRING", "INTEGER", "DOUBLE", "BOOLEAN", "LIST", "MAP"}

\* the last call was a get_lpg_schema call that built the cached schema
BuiltByLast ==
    /\ IsAccessor(last.op)
    /\ ~last.hit
    /\ last.exc = ""

\* every property name appears once, with type tags of the enumeration
WellTyped(properties) ==
    /\ \A i, j \in 1..Len(properties) : properties[i].name = properties[j].name => i = j
    /\ \A i \in 1..Len(properties) : properties[i].type \subseteq TypeTags

\* C30: a built schema has one node entry per node label and one relationship
\* entry per edge label of the summary, in the summary's order; the build
\* issued one property sampling query per entry (next to one pattern query per
\* edge label); the entry of a label with an empty sample has an empty
\* property list; in every entry each property name appears at most once and
\* its type tags are among STRING, INTEGER, DOUBLE, BOOLEAN, LIST, MAP.
C30_OneEntryPerLabel ==
    Built =>
        /\ Len(TheSchema.nodes) = Len(graph.nodeLabels)
        /\ Len(TheSchema.relationships) = Len(graph.edgeLabels)
        /\ \A i \in 1..Len(TheSchema.nodes) :
              /\ TheSchema.nodes[i].labels = graph.nodeLabels[i]
              /\ node_properties_query(graph, graph.nodeLabels[i]) = <<>> =>
                     TheSchema.nodes[i].properties = <<>>
              /\ WellTyped(TheSchema.nodes[i].properties)
        /\ \A i \in 1..Len(TheSchema.relationships) :
              /\ TheSchema.relationships[i].type = graph.edgeLabels[i]
              /\ edge_properties_query(graph, graph.edgeLabels[i]) = <<>> =>
                     TheSchema.relationships[i].properties = <<>>
              /\ WellTyped(TheSchema.relationships[i].properties)
        /\ BuiltByLast =>
              last.cypherCalls - Len(graph.edgeLabels) =
                  Len(TheSchema.nodes) + Len(TheSchema.relationships)

\* a build over a graph whose summary names Person and whose sample of Person
\* is empty: one entry for Person without properties, from one sampling query
C30_Witness ==
    /\ Built
    /\ BuiltByLast
    /\ graph.nodeLabels = <<"Person">>
    /\ node_properties_query(graph, "Person") = <<>>
    /\ TheSchema.nodes = <<[labels |-> "Person", properties |-> <<>>]>>
    /\ last.cypherCalls = 1

====
